---- MODULE Spec2Model ----
(***************************************************************************)
(* Cross-file relation engine of Data-Manager (modules/cross_relation.py): *)
(* the SQLite index store, the background reindexer, the freshness         *)
(* tracker, the status poll and the group page, as a state machine.        *)
(*                                                                         *)
(* Text values are sequences of one-character strings; the Python None is  *)
(* the value None below, which is no text.                                 *)
(***************************************************************************)
EXTENDS Integers, Sequences, FiniteSets, TLC

\* ------------------------------------------------------------------------
\* Text helpers (Python str methods used by the normalisers)
\* ------------------------------------------------------------------------

None == <<"<None>">>

Digits == {"0", "1", "2", "3", "4", "5", "6", "7", "8", "9"}

MobileLead == {"6", "7", "8", "9"}

Whitespace == {" "}

\* str.lower() on one character
LowerChar(c) ==
    CASE c = "A" -> "a" [] c = "B" -> "b" [] c = "C" -> "c" [] c = "D" -> "d"
      [] c = "E" -> "e" [] c = "F" -> "f" [] c = "I" -> "i" [] c = "L" -> "l"
      [] c = "M" -> "m" [] c = "N" -> "n" [] c = "O" -> "o" [] c = "U" -> "u"
      [] c = "X" -> "x" [] c = "Y" -> "y"
      [] OTHER -> c

lower(s) == [i \in 1..Len(s) |-> LowerChar(s[i])]

\* s[a..b] with Python's clamping (1-based, inclusive)
Slice(s, a, b) == IF a > b THEN <<>> ELSE SubSeq(s, a, b)

RECURSIVE lstrip(_)
lstrip(s) ==
    IF s # <<>> /\ Head(s) \in Whitespace THEN lstrip(Tail(s)) ELSE s

RECURSIVE rstrip(_)
rstrip(s) ==
    IF s # <<>> /\ s[Len(s)] \in Whitespace
    THEN rstrip(Slice(s, 1, Len(s) - 1))
    ELSE s

strip(s) == rstrip(lstrip(s))

\* str(val): None prints as the text 'None'
str(val) == IF val = None THEN <<"N", "o", "n", "e">> ELSE val

endswith(s, suffix) ==
    /\ Len(s) >= Len(suffix)
    /\ Slice(s, Len(s) - Len(suffix) + 1, Len(s)) = suffix

startswith(s, prefix) ==
    /\ Len(s) >= Len(prefix)
    /\ Slice(s, 1, Len(prefix)) = prefix

IsDigitAt(s, i) == i >= 1 /\ i <= Len(s) /\ s[i] \in Digits

AllDigits(s, a, b) == \A i \in a..b : IsDigitAt(s, i)

\* re.sub(r'\D', '', s)
_RX_NON_DIGIT_sub(s) == SelectSeq(s, LAMBDA c : c \in Digits)

\* positions where (?<!\d)([6-9]\d{9})(?!\d) matches
_RX_MOBILE_BARE(s) ==
    { i \in 1..Len(s) :
        /\ ~IsDigitAt(s, i - 1)
        /\ s[i] \in MobileLead
        /\ AllDigits(s, i, i + 9)
        /\ ~IsDigitAt(s, i + 10) }

\* positions where (?<!\d)(0([6-9]\d{9}))(?!\d) matches
_RX_MOBILE_LEAD0(s) ==
    { i \in 1..Len(s) :
        /\ ~IsDigitAt(s, i - 1)
        /\ s[i] = "0"
        /\ IsDigitAt(s, i + 1) /\ s[i + 1] \in MobileLead
        /\ AllDigits(s, i + 1, i + 10)
        /\ ~IsDigitAt(s, i + 11) }

\* re.search returns the leftmost match
First(S) == CHOOSE i \in S : \A j \in S : i <= j

NullWordsPhone ==
    { <<"n", "a", "n">>, <<"n", "o", "n", "e">>, <<>>, <<"n", "u", "l", "l">> }

\* the last-10-digits rule keeping 11 digits
normalize_phone_digits_LastEleven(digits_all) ==
    LET n == Len(digits_all) IN
    IF n >= 10
    THEN IF startswith(digits_all, <<"9", "1">>) /\ n = 12
            /\ digits_all[3] \in MobileLead
         THEN Slice(digits_all, 3, n)
         ELSE IF startswith(digits_all, <<"0">>) /\ n = 11
                 /\ digits_all[2] \in MobileLead
         THEN Slice(digits_all, 2, n)
         ELSE IF n = 10 THEN digits_all
         ELSE IF n <= 12 THEN Slice(digits_all, n - 10, n)
         ELSE None
    ELSE IF 7 <= n /\ n < 10 THEN digits_all
    ELSE None

\* the rule on the digit string longer than 12 digits keeping the last 10
normalize_phone_digits_NoLengthCap(digits_all) ==
    LET n == Len(digits_all) IN
    IF n >= 10
    THEN IF startswith(digits_all, <<"9", "1">>) /\ n = 12
            /\ digits_all[3] \in MobileLead
         THEN Slice(digits_all, 3, n)
         ELSE IF startswith(digits_all, <<"0">>) /\ n = 11
                 /\ digits_all[2] \in MobileLead
         THEN Slice(digits_all, 2, n)
         ELSE IF n = 10 THEN digits_all
         ELSE Slice(digits_all, n - 9, n)
    ELSE IF 7 <= n /\ n < 10 THEN digits_all
    ELSE None

normalize_phone_digits(digits_all) ==
    LET n == Len(digits_all) IN
    IF n >= 10
    THEN IF startswith(digits_all, <<"9", "1">>) /\ n = 12
            /\ digits_all[3] \in MobileLead
         THEN Slice(digits_all, 3, n)
         ELSE IF startswith(digits_all, <<"0">>) /\ n = 11
                 /\ digits_all[2] \in MobileLead
         THEN Slice(digits_all, 2, n)
         ELSE IF n = 10 THEN digits_all
         ELSE IF n <= 12 THEN Slice(digits_all, n - 9, n)
         ELSE None
    ELSE IF 7 <= n /\ n < 10 THEN digits_all
    ELSE None

\* normalize_phone with the country code 91 taken off the digits, as
\* modules/shared.py does, before anything else
normalize_phone_StripsCountryCodeFirst(val) ==
    IF val = None THEN None
    ELSE
    LET s0 == strip(str(val)) IN
    IF s0 = <<>> \/ lower(s0) \in NullWordsPhone THEN None
    ELSE
    LET s == IF endswith(s0, <<".", "0">>) THEN Slice(s0, 1, Len(s0) - 2) ELSE s0
        digits_all == _RX_NON_DIGIT_sub(s)
    IN
    IF digits_all = <<>> THEN None
    ELSE IF startswith(digits_all, <<"9", "1", "9">>)
    THEN normalize_phone_digits(Slice(digits_all, 3, Len(digits_all)))
    ELSE IF _RX_MOBILE_BARE(s) # {}
    THEN LET i == First(_RX_MOBILE_BARE(s)) IN Slice(s, i, i + 9)
    ELSE IF _RX_MOBILE_LEAD0(s) # {}
    THEN LET i == First(_RX_MOBILE_LEAD0(s)) IN Slice(s, i + 1, i + 10)
    ELSE normalize_phone_digits(digits_all)

\* normalize_phone trying the number after a leading zero before the bare
\* number
normalize_phone_LeadingZeroFirst(val) ==
    IF val = None THEN None
    ELSE
    LET s0 == strip(str(val)) IN
    IF s0 = <<>> \/ lower(s0) \in NullWordsPhone THEN None
    ELSE
    LET s == IF endswith(s0, <<".", "0">>) THEN Slice(s0, 1, Len(s0) - 2) ELSE s0
        digits_all == _RX_NON_DIGIT_sub(s)
    IN
    IF digits_all = <<>> THEN None
    ELSE IF _RX_MOBILE_LEAD0(s) # {}
    THEN LET i == First(_RX_MOBILE_LEAD0(s)) IN Slice(s, i + 1, i + 10)
    ELSE IF _RX_MOBILE_BARE(s) # {}
    THEN LET i == First(_RX_MOBILE_BARE(s)) IN Slice(s, i, i + 9)
    ELSE normalize_phone_digits(digits_all)

normalize_phone(val) ==
    IF val = None THEN None
    ELSE
    LET s0 == strip(str(val)) IN
    IF s0 = <<>> \/ lower(s0) \in NullWordsPhone THEN None
    ELSE
    LET s == IF endswith(s0, <<".", "0">>) THEN Slice(s0, 1, Len(s0) - 2) ELSE s0
        digits_all == _RX_NON_DIGIT_sub(s)
    IN
    IF digits_all = <<>> THEN None
    ELSE IF _RX_MOBILE_BARE(s) # {}
    THEN LET i == First(_RX_MOBILE_BARE(s)) IN Slice(s, i, i + 9)
    ELSE IF _RX_MOBILE_LEAD0(s) # {}
    THEN LET i == First(_RX_MOBILE_LEAD0(s)) IN Slice(s, i + 1, i + 10)
    ELSE normalize_phone_digits(digits_all)

EMPTY_VALUES ==
    { <<>>, <<"n", "a", "n">>, <<"n", "o", "n", "e">>, <<"n", "u", "l", "l">>,
      <<"n", "/", "a">>, <<"n", "a">>, <<"-">>, <<"n", "i", "l">> }

\* modules/shared.py normalize_email: `not email` is true of None and of ''
normalize_email(email) ==
    IF email = None \/ email = <<>> THEN None
    ELSE
    LET val == lower(strip(str(email))) IN
    IF val \in EMPTY_VALUES THEN None ELSE val

\* ------------------------------------------------------------------------
\* Column classifier
\* ------------------------------------------------------------------------

\* The column names that occur in the tables below, classified by the
\* keyword and exclude lists: (^|_)kw(_|$|\d) for phone keywords, substring
\* for email keywords.
ColumnNames ==
    { "name", "zip", "phone", "mobile", "alt_phone", "email", "mail",
      "__phone_norm__" }

_is_phone_col(col) == col \in { "phone", "mobile", "alt_phone", "__phone_norm__" }

_is_email_col(col) == col \in { "email", "mail" }

\* c.startswith('__') and c.endswith('__')
IsMarkerColumn(col) == col \in { "__phone_norm__" }

\* indices (in column order) of the columns satisfying Test
ColumnsWhere(columns, Test(_)) ==
    SelectSeq([i \in 1..Len(columns) |-> i], LAMBDA i : Test(columns[i]))

\* df.drop(columns=markers)
DropMarkers(df) ==
    LET keep == ColumnsWhere(df.columns, LAMBDA c : ~IsMarkerColumn(c)) IN
    [ columns |-> [k \in 1..Len(keep) |-> df.columns[keep[k]]],
      rows    |-> [r \in 1..Len(df.rows) |->
                     [k \in 1..Len(keep) |-> df.rows[r][keep[k]]]] ]

NeedsFill ==
    { <<>>, <<"n", "a", "n">>, <<"N", "o", "n", "e">>, <<"N", "a", "N">>,
      <<"n", "o", "n", "e">>, <<"n", "u", "l", "l">> }

RECURSIVE MergePhoneColumns(_, _, _)
MergePhoneColumns(row, phone_cols, merged) ==
    IF phone_cols = <<>> THEN merged
    ELSE MergePhoneColumns(row, Tail(phone_cols),
            IF merged \in NeedsFill THEN str(row[Head(phone_cols)]) ELSE merged)

\* _detect_cols: the raw phone value and the raw email value of every row;
\* has_phone / has_email say whether a column was detected at all.
_detect_cols(df) ==
    LET phone_cols == ColumnsWhere(df.columns, _is_phone_col)
        email_cols == ColumnsWhere(df.columns, _is_email_col)
    IN
    [ has_phone |-> phone_cols # <<>>,
      has_email |-> email_cols # <<>>,
      phone |-> [r \in 1..Len(df.rows) |->
                   IF phone_cols = <<>> THEN None
                   ELSE IF Len(phone_cols) = 1 THEN df.rows[r][phone_cols[1]]
                   ELSE MergePhoneColumns(df.rows[r], Tail(phone_cols),
                                          str(df.rows[r][phone_cols[1]]))],
      email |-> [r \in 1..Len(df.rows) |->
                   IF email_cols = <<>> THEN None
                   ELSE df.rows[r][email_cols[1]]] ]

\* ------------------------------------------------------------------------
\* File contents
\* ------------------------------------------------------------------------

Txt_Mobile  == <<"9", "8", "7", "6", "5", "4", "3", "2", "1", "0">>
Txt_Mobile0 == <<"0", "9", "8", "7", "6", "5", "4", "3", "2", "1", "0">>
Txt_Land    == <<"2", "3", "4", "5", "6", "7", "8">>
Txt_Mail    == <<"x", "@", "y">>
Txt_MailRaw == <<" ", "X", "@", "Y", " ">>
Txt_NaN     == <<"N", "a", "N">>
Txt_nan     == <<"n", "a", "n">>
Txt_A       == <<"A">>

\* What read_file returns for a readable file, by content id.
Tables ==
    << [ columns |-> <<"name", "phone", "email">>,
         rows    |-> << <<Txt_A, Txt_Mobile, Txt_Mail>>,
                        <<Txt_A, Txt_Land, Txt_NaN>>,
                        <<Txt_A, None, None>> >> ],
       [ columns |-> <<"mobile", "alt_phone", "mail">>,
         rows    |-> << <<Txt_nan, Txt_Mobile0, Txt_MailRaw>>,
                        <<Txt_Land, <<>>, None>> >> ],
       [ columns |-> <<"name", "zip", "__phone_norm__">>,
         rows    |-> << <<Txt_A, Txt_Land, Txt_Mobile>> >> ] >>

TableIds == 1..Len(Tables)

\* content ids of a file read_file cannot parse and of a missing file
Corrupt == Len(Tables) + 1
Absent  == Len(Tables) + 2

\* _index_dataset without the `valid` mask: one row per source record
IndexRows_EveryRecord(dataset_id, user_id, table, mtime) ==
    LET df      == DropMarkers(table)
        cols    == _detect_cols(df)
    IN
    [r \in 1..Len(df.rows) |->
        [ dataset_id |-> dataset_id, user_id |-> user_id,
          phone_norm |-> IF cols.has_phone THEN normalize_phone(cols.phone[r]) ELSE None,
          email_norm |-> IF cols.has_email THEN normalize_email(cols.email[r]) ELSE None,
          mtime |-> mtime ]]

\* the (dataset_id, user_id, phone_norm, email_norm, mtime) rows computed by
\* _index_dataset from a table that was read
IndexRows(dataset_id, user_id, table, mtime) ==
    LET df      == DropMarkers(table)
        cols    == _detect_cols(df)
        phone_s == [r \in 1..Len(df.rows) |->
                      IF cols.has_phone THEN normalize_phone(cols.phone[r]) ELSE None]
        email_s == [r \in 1..Len(df.rows) |->
                      IF cols.has_email THEN normalize_email(cols.email[r]) ELSE None]
        valid   == SelectSeq([r \in 1..Len(df.rows) |-> r],
                             LAMBDA r : phone_s[r] # None \/ email_s[r] # None)
    IN
    [k \in 1..Len(valid) |->
        [ dataset_id |-> dataset_id, user_id |-> user_id,
          phone_norm |-> phone_s[valid[k]], email_norm |-> email_s[valid[k]],
          mtime |-> mtime ]]

\* ------------------------------------------------------------------------
\* State
\* ------------------------------------------------------------------------

\* bounds of the model
MaxMtime   == 2
MaxThreads == 2

AdminId == 1

\* models.User.role
user_role(u) == IF u = AdminId THEN "admin" ELSE "user"

VARIABLES
    dataset_table,     \* rows of models.Dataset, in id order: [id, user_id]
    files,             \* disk: dataset id -> [mtime, content]
    cross_rel_index,   \* committed rows of cross_rel_index, by dataset id
    cross_rel_meta,    \* committed rows of cross_rel_meta, by dataset id
    txn,               \* the open write transaction of the index database
    _REBUILDING,       \* dataset ids marked as being rebuilt
    threads,           \* background threads running _index_dataset
    handlers,          \* request handlers (FastAPI worker threads)
    last_reindex       \* dataset id -> what its last successful reindex was
                       \* given and computed: << [mtime, rows] >>, or << >>

vars ==
    << dataset_table, files, cross_rel_index, cross_rel_meta, txn, _REBUILDING,
       threads, handlers, last_reindex >>

DatasetIds == { dataset_table[k].id : k \in 1..Len(dataset_table) }

ThreadIds == 1..MaxThreads

NoTxn == [ owner |-> 0, dataset_id |-> 0, index |-> <<>>, meta |-> <<>> ]

FreeThread ==
    [ pc |-> "free", dataset_id |-> 0, user_id |-> 0, mtime |-> 0,
      rows |-> <<>>, outcome |-> "", before |-> <<>> ]

IdleHandler ==
    [ pc |-> "idle", kind |-> "", datasets |-> <<>>, i |-> 0,
      current_mtime |-> 0, all_ready |-> TRUE,
      any_stale |-> FALSE, started |-> {}, skipped |-> {},
      pending |-> 0, stale |-> 0,
      req |-> <<>>, combined |-> <<>>, combined_keys |-> {}, phone |-> <<>>,
      queried |-> FALSE, response |-> <<>>, failed_before |-> {},
      file_groups |-> <<>> ]

\* The datasets of the deployment: two files of two different users.
InitialDatasets == << [id |-> 1, user_id |-> 2], [id |-> 2, user_id |-> 3] >>

Init ==
    /\ dataset_table = InitialDatasets
    /\ files = [d \in {1, 2} |-> [mtime |-> 1, content |-> d]]
    /\ cross_rel_index = [d \in {1, 2} |-> <<>>]
    /\ cross_rel_meta = [d \in {1, 2} |-> <<>>]
    /\ txn = NoTxn
    /\ _REBUILDING = {}
    /\ threads = [t \in ThreadIds |-> FreeThread]
    /\ handlers = [h \in {1} |-> IdleHandler]
    /\ last_reindex = [d \in {1, 2} |-> <<>>]

\* ------------------------------------------------------------------------
\* The file system (upload pipeline and operators, outside the engine)
\* ------------------------------------------------------------------------

\* a file is written or replaced: new content, later mtime
WriteFile(d, c) ==
    /\ files[d].mtime < MaxMtime
    /\ files' = [files EXCEPT ![d] = [mtime |-> files[d].mtime + 1, content |-> c]]
    /\ UNCHANGED << dataset_table, cross_rel_index, cross_rel_meta, txn,
                    _REBUILDING, threads, handlers, last_reindex >>

DeleteFile(d) ==
    /\ files[d].content # Absent
    /\ files' = [files EXCEPT ![d].content = Absent]
    /\ UNCHANGED << dataset_table, cross_rel_index, cross_rel_meta, txn,
                    _REBUILDING, threads, handlers, last_reindex >>

\* os.path.exists(raw_path)
path_exists(d) == files[d].content # Absent

\* an mtime that is also 0.0 for a file that exists and cannot be parsed
_file_mtime_UnreadableIsZero(d) ==
    IF files[d].content \in {Absent, Corrupt} THEN 0 ELSE files[d].mtime

\* os.path.getmtime inside try / except OSError: return 0.0
_file_mtime(d) == IF files[d].content = Absent THEN 0 ELSE files[d].mtime

\* ------------------------------------------------------------------------
\* The index store
\* ------------------------------------------------------------------------

\* SELECT mtime FROM cross_rel_meta WHERE dataset_id = ?; 0.0 without a row.
\* The index database stays readable (WAL readers are never blocked), so
\* the except branch, which also returns 0.0, adds no outcome.
_get_indexed_mtime(dataset_id) ==
    IF cross_rel_meta[dataset_id] # <<>>
    THEN cross_rel_meta[dataset_id][1].mtime
    ELSE 0

\* ------------------------------------------------------------------------
\* _index_dataset, one background thread per call
\* ------------------------------------------------------------------------

Running(t) == threads[t].pc # "free"

\* if not os.path.exists(raw_path): return  (the thread ends)
IndexExists(t) ==
    /\ threads[t].pc = "exists"
    /\ threads' = [threads EXCEPT ![t] =
            IF path_exists(threads[t].dataset_id)
            THEN [@ EXCEPT !.pc = "read"]
            ELSE FreeThread]
    /\ UNCHANGED << dataset_table, files, cross_rel_index, cross_rel_meta, txn,
                    _REBUILDING, handlers, last_reindex >>

\* read_file, column clean-up, detection and normalisation; a read that
\* raises is logged and the function returns (the thread ends)
IndexRead(t) ==
    /\ threads[t].pc = "read"
    /\ LET th == threads[t]
           c == files[th.dataset_id].content
       IN threads' = [threads EXCEPT ![t] =
            IF c \in TableIds
            THEN [th EXCEPT !.pc = "write",
                            !.rows = IndexRows(th.dataset_id, th.user_id,
                                               Tables[c], th.mtime)]
            ELSE FreeThread]
    /\ UNCHANGED << dataset_table, files, cross_rel_index, cross_rel_meta, txn,
                    _REBUILDING, handlers, last_reindex >>

\* the write block that inserts the metadata row only together with rows
TxnWrite_MetaOnlyWithRows(t) ==
    /\ threads[t].pc = "write"
    /\ txn.owner = 0
    /\ txn' = [ owner |-> t, dataset_id |-> threads[t].dataset_id,
                index |-> threads[t].rows,
                meta |-> IF threads[t].rows = <<>> THEN <<>>
                         ELSE << [mtime |-> threads[t].mtime] >> ]
    /\ threads' = [threads EXCEPT ![t].pc = "commit"]
    /\ UNCHANGED << dataset_table, files, cross_rel_index, cross_rel_meta,
                    _REBUILDING, handlers, last_reindex >>

\* the write block recording the file's mtime at the time of the write, not
\* the mtime the thread was given
TxnWrite_ResampledMtime(t) ==
    /\ threads[t].pc = "write"
    /\ txn.owner = 0
    /\ txn' = [ owner |-> t, dataset_id |-> threads[t].dataset_id,
                index |-> threads[t].rows,
                meta |-> << [mtime |-> files[threads[t].dataset_id].mtime] >> ]
    /\ threads' = [threads EXCEPT ![t].pc = "commit"]
    /\ UNCHANGED << dataset_table, files, cross_rel_index, cross_rel_meta,
                    _REBUILDING, handlers, last_reindex >>

\* the write block with the two DELETEs committed on their own, before the
\* INSERTs
TxnWrite_DeleteCommitted(t) ==
    /\ threads[t].pc = "write"
    /\ txn.owner = 0
    /\ cross_rel_index' = [cross_rel_index EXCEPT ![threads[t].dataset_id] = <<>>]
    /\ cross_rel_meta' = [cross_rel_meta EXCEPT ![threads[t].dataset_id] = <<>>]
    /\ txn' = [ owner |-> t, dataset_id |-> threads[t].dataset_id,
                index |-> threads[t].rows,
                meta |-> << [mtime |-> threads[t].mtime] >> ]
    /\ threads' = [threads EXCEPT ![t].pc = "commit"]
    /\ UNCHANGED << dataset_table, files, _REBUILDING, handlers, last_reindex >>

\* DELETE FROM cross_rel_index / cross_rel_meta WHERE dataset_id = ?, then
\* INSERT INTO cross_rel_index (executemany) and INSERT INTO cross_rel_meta.
\* The first write statement opens the transaction and takes the database's
\* write lock; deletes and inserts stay in the transaction until it commits.
TxnWrite(t) ==
    /\ threads[t].pc = "write"
    /\ txn.owner = 0
    /\ txn' = [ owner |-> t, dataset_id |-> threads[t].dataset_id,
                index |-> threads[t].rows,
                meta |-> << [mtime |-> threads[t].mtime] >> ]
    /\ threads' = [threads EXCEPT ![t].pc = "commit"]
    /\ UNCHANGED << dataset_table, files, cross_rel_index, cross_rel_meta,
                    _REBUILDING, handlers, last_reindex >>

\* a commit that replaces the index rows and adds the metadata row only
\* when the dataset has none
TxnCommit_KeepsOldMeta(t) ==
    /\ threads[t].pc = "commit"
    /\ txn.owner = t
    /\ cross_rel_index' = [cross_rel_index EXCEPT ![txn.dataset_id] = txn.index]
    /\ cross_rel_meta' = [cross_rel_meta EXCEPT ![txn.dataset_id] =
                            IF @ = <<>> THEN txn.meta ELSE @]
    /\ last_reindex' = [last_reindex EXCEPT ![txn.dataset_id] =
                            << [mtime |-> threads[t].mtime, rows |-> threads[t].rows] >>]
    /\ txn' = NoTxn
    /\ threads' = [threads EXCEPT ![t].pc = "finally", ![t].outcome = "ok"]
    /\ UNCHANGED << dataset_table, files, _REBUILDING, handlers >>

\* conn.commit(): the transaction's rows replace the dataset's committed rows
TxnCommit(t) ==
    /\ threads[t].pc = "commit"
    /\ txn.owner = t
    /\ cross_rel_index' = [cross_rel_index EXCEPT ![txn.dataset_id] = txn.index]
    /\ cross_rel_meta' = [cross_rel_meta EXCEPT ![txn.dataset_id] = txn.meta]
    /\ last_reindex' = [last_reindex EXCEPT ![txn.dataset_id] =
                            << [mtime |-> threads[t].mtime, rows |-> threads[t].rows] >>]
    /\ txn' = NoTxn
    /\ threads' = [threads EXCEPT ![t].pc = "finally", ![t].outcome = "ok"]
    /\ UNCHANGED << dataset_table, files, _REBUILDING, handlers >>

\* a failing write block whose statements are not rolled back
WriteFails_NoRollback(t) ==
    /\ threads[t].pc \in {"write", "commit"}
    /\ IF txn.owner = t
       THEN /\ cross_rel_index' = [cross_rel_index EXCEPT ![txn.dataset_id] = txn.index]
            /\ cross_rel_meta' = [cross_rel_meta EXCEPT ![txn.dataset_id] = <<>>]
            /\ txn' = NoTxn
       ELSE UNCHANGED << cross_rel_index, cross_rel_meta, txn >>
    /\ threads' = [threads EXCEPT ![t].pc = "finally", ![t].outcome = "write_failed"]
    /\ UNCHANGED << dataset_table, files, _REBUILDING, handlers, last_reindex >>

\* A statement of the write block raises (the database is locked by another
\* writer, the disk is full, ...): the connection's context manager rolls the
\* transaction back and the except clause logs the failure.
WriteFails(t) ==
    /\ threads[t].pc \in {"write", "commit"}
    /\ txn' = IF txn.owner = t THEN NoTxn ELSE txn
    /\ threads' = [threads EXCEPT ![t].pc = "finally", ![t].outcome = "write_failed"]
    /\ UNCHANGED << dataset_table, files, cross_rel_index, cross_rel_meta,
                    _REBUILDING, handlers, last_reindex >>

\* a reindex that leaves the marker in place when it ends
IndexFinally_KeepsMarker(t) ==
    /\ threads[t].pc = "finally"
    /\ threads' = [threads EXCEPT ![t] = FreeThread]
    /\ UNCHANGED << dataset_table, files, cross_rel_index, cross_rel_meta, txn,
                    _REBUILDING, handlers, last_reindex >>

\* finally: with _rebuild_lock: _REBUILDING.pop(dataset_id, None); the
\* function returns and the thread ends
IndexFinally(t) ==
    /\ threads[t].pc = "finally"
    /\ _REBUILDING' = _REBUILDING \ {threads[t].dataset_id}
    /\ threads' = [threads EXCEPT ![t] = FreeThread]
    /\ UNCHANGED << dataset_table, files, cross_rel_index, cross_rel_meta, txn,
                    handlers, last_reindex >>

\* threading.Thread(target=_index_dataset, args=(...)).start()
StartThread(ths, t, ds, mtime) ==
    [ths EXCEPT ![t] =
        [ pc |-> "exists", dataset_id |-> ds.id, user_id |-> ds.user_id,
          mtime |-> mtime, rows |-> <<>>, outcome |-> "",
          before |-> << cross_rel_index[ds.id], cross_rel_meta[ds.id] >> ]]

FreeThreads == { t \in ThreadIds : threads[t].pc = "free" }

\* ------------------------------------------------------------------------
\* _query_groups: the three GROUP BY queries and the Python loops over them
\* ------------------------------------------------------------------------

\* the index rows WHERE dataset_id IN (dataset_ids), as (dataset, position)
RowRefs(index, dataset_ids) ==
    UNION { { <<d, k>> : k \in 1..Len(index[d]) } :
            d \in dataset_ids \cap DOMAIN index }

RowAt(index, ref) == index[ref[1]][ref[2]]

\* SELECT key, GROUP_CONCAT(DISTINCT dataset_id), GROUP_CONCAT(DISTINCT
\* user_id), COUNT(*) ... WHERE Where GROUP BY key HAVING COUNT(DISTINCT
\* dataset_id) >= 2, before ORDER BY
GroupBy(index, dataset_ids, Where(_), KeyOf(_)) ==
    LET refs == { r \in RowRefs(index, dataset_ids) : Where(RowAt(index, r)) }
        keys == { KeyOf(RowAt(index, r)) : r \in refs }
        of(key) == { r \in refs : KeyOf(RowAt(index, r)) = key }
    IN
    { [ key |-> key,
        ds_ids |-> { RowAt(index, r).dataset_id : r \in of(key) },
        u_ids |-> { RowAt(index, r).user_id : r \in of(key) },
        total_records |-> Cardinality(of(key)) ] :
      key \in { k \in keys :
                  Cardinality({ RowAt(index, r).dataset_id : r \in of(k) }) >= 2 } }

\* ORDER BY total_records DESC leaves the order of ties to the database:
\* every order of the result rows that respects it
OrderByTotalDesc(S) ==
    { s \in [1..Cardinality(S) -> S] :
        /\ \A i, j \in 1..Cardinality(S) : i # j => s[i] # s[j]
        /\ \A i, j \in 1..Cardinality(S) :
              i < j => s[i].total_records >= s[j].total_records }

\* the combined query without AND email_norm IS NOT NULL
SelectCombined_NullEmail(index, dataset_ids) ==
    GroupBy(index, dataset_ids,
            LAMBDA row : row.phone_norm # None,
            LAMBDA row : <<row.phone_norm, row.email_norm>>)

SelectCombined(index, dataset_ids) ==
    GroupBy(index, dataset_ids,
            LAMBDA row : row.phone_norm # None /\ row.email_norm # None,
            LAMBDA row : <<row.phone_norm, row.email_norm>>)

\* the phone query without WHERE dataset_id IN (...)
SelectPhone_AllDatasets(index, dataset_ids) ==
    GroupBy(index, DOMAIN index,
            LAMBDA row : row.phone_norm # None,
            LAMBDA row : row.phone_norm)

SelectPhone(index, dataset_ids) ==
    GroupBy(index, dataset_ids,
            LAMBDA row : row.phone_norm # None,
            LAMBDA row : row.phone_norm)

SelectEmail(index, dataset_ids) ==
    GroupBy(index, dataset_ids,
            LAMBDA row : row.email_norm # None,
            LAMBDA row : row.email_norm)

\* if user_ids_filter and not any(u in user_ids_filter for u in u_ids): continue
\* (the empty set stands for a filter that is None or empty)
FilteredOut(u_ids, user_ids_filter) ==
    user_ids_filter # {} /\ u_ids \cap user_ids_filter = {}

Group(mode, phone, email, row) ==
    [ phone |-> phone, email |-> email, mode |-> mode,
      total_records |-> row.total_records,
      file_ids |-> row.ds_ids, user_ids |-> row.u_ids ]

\* for phone, email, ds_ids_str, u_ids_str, total in rows: (combined)
CombinedLoop(rows, user_ids_filter) ==
    LET kept == SelectSeq(rows, LAMBDA row : ~FilteredOut(row.u_ids, user_ids_filter)) IN
    [ groups |-> [k \in 1..Len(kept) |->
                    Group("combined", kept[k].key[1], kept[k].key[2], kept[k])],
      combined_keys |-> { kept[k].key : k \in 1..Len(kept) } ]

\* the phone-only loop without the test against combined_keys
PhoneLoop_KeepsCombined(rows, combined_keys, user_ids_filter) ==
    LET kept == SelectSeq(rows, LAMBDA row :
                    ~FilteredOut(row.u_ids, user_ids_filter)) IN
    [k \in 1..Len(kept) |-> Group("phone", kept[k].key, None, kept[k])]

\* for phone, ds_ids_str, u_ids_str, total in rows: (phone-only)
PhoneLoop(rows, combined_keys, user_ids_filter) ==
    LET kept == SelectSeq(rows, LAMBDA row :
                    /\ row.key \notin { k[1] : k \in combined_keys }
                    /\ ~FilteredOut(row.u_ids, user_ids_filter)) IN
    [k \in 1..Len(kept) |-> Group("phone", kept[k].key, None, kept[k])]

\* the email-only loop without the test against combined_keys
EmailLoop_KeepsCombined(rows, combined_keys, user_ids_filter) ==
    LET kept == SelectSeq(rows, LAMBDA row :
                    ~FilteredOut(row.u_ids, user_ids_filter)) IN
    [k \in 1..Len(kept) |-> Group("email", None, kept[k].key, kept[k])]

\* for email, ds_ids_str, u_ids_str, total in rows: (email-only)
EmailLoop(rows, combined_keys, user_ids_filter) ==
    LET kept == SelectSeq(rows, LAMBDA row :
                    /\ row.key \notin { k[2] : k \in combined_keys }
                    /\ ~FilteredOut(row.u_ids, user_ids_filter)) IN
    [k \in 1..Len(kept) |-> Group("email", None, kept[k].key, kept[k])]

\* every result _query_groups can return on a quiescent index
_query_groups(index, dataset_ids, user_ids_filter) ==
    IF dataset_ids = {}
    THEN { [combined |-> <<>>, phone |-> <<>>, email |-> <<>>] }
    ELSE
    { [ combined |-> CombinedLoop(c, user_ids_filter).groups,
        phone |-> PhoneLoop(p, CombinedLoop(c, user_ids_filter).combined_keys,
                            user_ids_filter),
        email |-> EmailLoop(e, CombinedLoop(c, user_ids_filter).combined_keys,
                            user_ids_filter) ] :
      <<c, p, e>> \in OrderByTotalDesc(SelectCombined(index, dataset_ids))
                  \X OrderByTotalDesc(SelectPhone(index, dataset_ids))
                  \X OrderByTotalDesc(SelectEmail(index, dataset_ids)) }

\* ------------------------------------------------------------------------
\* Pagination
\* ------------------------------------------------------------------------

PER_PAGE == 10

Max(a, b) == IF a >= b THEN a ELSE b
Min(a, b) == IF a <= b THEN a ELSE b

_paginate(items, page, per_page) ==
    LET total       == Len(items)
        total_pages == Max(1, (total + per_page - 1) \div per_page)
        pg          == Max(1, Min(page, total_pages))
        start       == (pg - 1) * per_page
    IN
    [ items |-> Slice(items, start + 1, Min(start + per_page, total)),
      page |-> pg, total_pages |-> total_pages ]

Abs(n) == IF n < 0 THEN -n ELSE n

RECURSIVE PageRangeFrom(_, _, _, _)
PageRangeFrom(p, page, total_pages, pages) ==
    IF p > total_pages THEN pages
    ELSE PageRangeFrom(p + 1, page, total_pages,
            IF p = 1 \/ p = total_pages \/ Abs(p - page) <= 2
            THEN Append(pages, p)
            ELSE IF pages # <<>> /\ pages[Len(pages)] # -1
            THEN Append(pages, -1)
            ELSE pages)

\* the '...' entry is written -1
_page_range(page, total_pages) == PageRangeFrom(1, page, total_pages, <<>>)

\* ------------------------------------------------------------------------
\* Request handlers: GET /cross-relations and GET /cross-relations/status
\* ------------------------------------------------------------------------

\* db.query(Dataset).all() for an admin, .filter_by(user_id=eff_id) otherwise
\* every dataset is listed whatever the role of the caller
DatasetsOf_Everyone(user) == dataset_table
DatasetsOf(user) ==
    IF user_role(user) = "admin"
    THEN dataset_table
    ELSE SelectSeq(dataset_table, LAMBDA ds : ds.user_id = user)

\* [ds for ds in all_datasets if ds.id in file_ids] if file_ids else all_datasets
ActiveDatasets(all_datasets, file_ids) ==
    IF file_ids # {}
    THEN SelectSeq(all_datasets, LAMBDA ds : ds.id \in file_ids)
    ELSE all_datasets

IdsOf(datasets) == { datasets[k].id : k \in 1..Len(datasets) }

\* the template context when not all_ready (the keys that carry results)
ComputingResponse(req) ==
    [ groups |-> <<>>, page |-> 1, total_pages |-> 1, page_range |-> <<1>>,
      combined_count |-> 0, phone_count |-> 0, email_count |-> 0,
      current_mode |-> req.mode, is_computing |-> TRUE ]

CrossUserOnly(groups) ==
    SelectSeq(groups, LAMBDA g : Cardinality(g.user_ids) > 1)

\* cross-user filter, mode fallback, pagination, template context
GroupsResponse(req, combined, phone, email) ==
    LET admin_mode == user_role(req.user) = "admin"
        filter     == req.cross_user /\ admin_mode
        combined_groups == IF filter THEN CrossUserOnly(combined) ELSE combined
        phone_groups    == IF filter THEN CrossUserOnly(phone) ELSE phone
        email_groups    == IF filter THEN CrossUserOnly(email) ELSE email
        mode_map(m) == CASE m = "combined" -> combined_groups
                         [] m = "phone" -> phone_groups
                         [] m = "email" -> email_groups
                         [] OTHER -> <<>>
        mode == IF mode_map(req.mode) # <<>> THEN req.mode
                ELSE IF combined_groups # <<>> THEN "combined"
                ELSE IF phone_groups # <<>> THEN "phone"
                ELSE IF email_groups # <<>> THEN "email"
                ELSE req.mode
        mode_groups == IF mode \in {"combined", "phone", "email"}
                       THEN mode_map(mode) ELSE combined_groups
        paged == _paginate(mode_groups, req.page, PER_PAGE)
    IN
    [ groups |-> paged.items, page |-> paged.page,
      total_pages |-> paged.total_pages,
      page_range |-> _page_range(paged.page, paged.total_pages),
      combined_count |-> Len(combined_groups),
      phone_count |-> Len(phone_groups),
      email_count |-> Len(email_groups),
      current_mode |-> mode, is_computing |-> FALSE ]

\* a page handler that goes on to the queries whatever all_ready is
AfterEnsure_AlwaysQuery(rec) ==
    IF rec.datasets = <<>>
    THEN [rec EXCEPT !.pc = "done",
                     !.response = GroupsResponse(rec.req, <<>>, <<>>, <<>>)]
    ELSE [rec EXCEPT !.pc = "q_combined"]

\* _ensure_datasets_indexed has returned: lines 607-650 of the page handler
AfterEnsure(rec) ==
    IF ~rec.all_ready
    THEN [rec EXCEPT !.pc = "done", !.response = ComputingResponse(rec.req)]
    ELSE IF rec.datasets = <<>>
    THEN [rec EXCEPT !.pc = "done",
                     !.response = GroupsResponse(rec.req, <<>>, <<>>, <<>>)]
    ELSE [rec EXCEPT !.pc = "q_combined"]

\* the for loop of _ensure_datasets_indexed moves to the next dataset
EnsureNext(rec) ==
    IF rec.i < Len(rec.datasets)
    THEN [rec EXCEPT !.pc = "ensure_check", !.i = @ + 1]
    ELSE AfterEnsure([rec EXCEPT !.i = @ + 1])

\* GET /cross-relations up to the call of _ensure_datasets_indexed
StartPage(h, req) ==
    /\ handlers[h].pc = "idle"
    /\ handlers' = [handlers EXCEPT ![h] =
         IF req.user = 0
         THEN [IdleHandler EXCEPT !.pc = "done", !.kind = "page", !.req = req,
                                  !.response = [redirect |-> "/login"]]
         ELSE LET active == ActiveDatasets(DatasetsOf(req.user), req.file_ids)
                  rec == [IdleHandler EXCEPT !.kind = "page", !.req = req,
                                             !.datasets = active]
              IN IF active = <<>> THEN AfterEnsure(rec)
                 ELSE [rec EXCEPT !.pc = "ensure_check", !.i = 1]]
    /\ UNCHANGED << dataset_table, files, cross_rel_index, cross_rel_meta, txn,
                    _REBUILDING, threads, last_reindex >>

\* all_ready cleared only for a stale dataset that is not yet rebuilding
EnsureCheck_LateFlag(h) ==
    /\ handlers[h].pc = "ensure_check"
    /\ LET rec == handlers[h]
           ds == rec.datasets[rec.i]
           current_mtime == _file_mtime(ds.id)
           indexed_mtime == _get_indexed_mtime(ds.id)
           saw == [rec EXCEPT !.any_stale = @ \/ current_mtime # indexed_mtime]
       IN handlers' = [handlers EXCEPT ![h] =
            IF current_mtime = indexed_mtime
            THEN EnsureNext(saw)
            ELSE [saw EXCEPT !.pc = "ensure_mark",
                             !.all_ready = @ /\ ds.id \in _REBUILDING,
                             !.current_mtime = current_mtime]]
    /\ UNCHANGED << dataset_table, files, cross_rel_index, cross_rel_meta, txn,
                    _REBUILDING, threads, last_reindex >>

\* current_mtime = _file_mtime(raw_path); indexed_mtime = _get_indexed_mtime(ds.id)
\* if current_mtime == indexed_mtime: continue;  all_ready = False
EnsureCheck(h) ==
    /\ handlers[h].pc = "ensure_check"
    /\ LET rec == handlers[h]
           ds == rec.datasets[rec.i]
           current_mtime == _file_mtime(ds.id)
           indexed_mtime == _get_indexed_mtime(ds.id)
           saw == [rec EXCEPT !.any_stale = @ \/ current_mtime # indexed_mtime]
       IN handlers' = [handlers EXCEPT ![h] =
            IF current_mtime = indexed_mtime
            THEN EnsureNext(saw)
            ELSE [saw EXCEPT !.pc = "ensure_mark", !.all_ready = FALSE,
                             !.current_mtime = current_mtime]]
    /\ UNCHANGED << dataset_table, files, cross_rel_index, cross_rel_meta, txn,
                    _REBUILDING, threads, last_reindex >>

\* with _rebuild_lock: if _REBUILDING.get(ds.id): continue
EnsureSkip(h) ==
    /\ handlers[h].pc = "ensure_mark"
    /\ LET rec == handlers[h]
           ds == rec.datasets[rec.i]
       IN /\ ds.id \in _REBUILDING
          /\ handlers' = [handlers EXCEPT ![h] =
                EnsureNext([rec EXCEPT !.skipped = @ \cup {ds.id}])]
    /\ UNCHANGED << dataset_table, files, cross_rel_index, cross_rel_meta, txn,
                    _REBUILDING, threads, last_reindex >>

\* a thread started without looking at the marker
EnsureStart_Unchecked(h) ==
    /\ handlers[h].pc = "ensure_mark"
    /\ LET rec == handlers[h]
           ds == rec.datasets[rec.i]
       IN /\ FreeThreads # {}
          /\ _REBUILDING' = _REBUILDING \cup {ds.id}
          /\ threads' = StartThread(threads, First(FreeThreads), ds, rec.current_mtime)
          /\ handlers' = [handlers EXCEPT ![h] =
                EnsureNext([rec EXCEPT !.started = @ \cup {ds.id}])]
    /\ UNCHANGED << dataset_table, files, cross_rel_index, cross_rel_meta, txn,
                    last_reindex >>

\* with _rebuild_lock: _REBUILDING[ds.id] = True;  then Thread(...).start()
EnsureStart(h) ==
    /\ handlers[h].pc = "ensure_mark"
    /\ LET rec == handlers[h]
           ds == rec.datasets[rec.i]
       IN /\ ds.id \notin _REBUILDING
          /\ FreeThreads # {}
          /\ _REBUILDING' = _REBUILDING \cup {ds.id}
          /\ threads' = StartThread(threads, First(FreeThreads), ds, rec.current_mtime)
          /\ handlers' = [handlers EXCEPT ![h] =
                EnsureNext([rec EXCEPT !.started = @ \cup {ds.id}])]
    /\ UNCHANGED << dataset_table, files, cross_rel_index, cross_rel_meta, txn,
                    last_reindex >>

\* _query_groups, first SELECT and loop (ds_ids is not empty here)
QueryCombined(h) ==
    /\ handlers[h].pc = "q_combined"
    /\ \E rows \in OrderByTotalDesc(
                     SelectCombined(cross_rel_index, IdsOf(handlers[h].datasets))) :
         LET out == CombinedLoop(rows, {}) IN
         handlers' = [handlers EXCEPT ![h].pc = "q_phone",
                                      ![h].queried = TRUE,
                                      ![h].combined = out.groups,
                                      ![h].combined_keys = out.combined_keys]
    /\ UNCHANGED << dataset_table, files, cross_rel_index, cross_rel_meta, txn,
                    _REBUILDING, threads, last_reindex >>

\* second SELECT and loop
QueryPhone(h) ==
    /\ handlers[h].pc = "q_phone"
    /\ \E rows \in OrderByTotalDesc(
                     SelectPhone(cross_rel_index, IdsOf(handlers[h].datasets))) :
         handlers' = [handlers EXCEPT ![h].pc = "q_email",
                         ![h].phone = PhoneLoop(rows, handlers[h].combined_keys, {})]
    /\ UNCHANGED << dataset_table, files, cross_rel_index, cross_rel_meta, txn,
                    _REBUILDING, threads, last_reindex >>

\* third SELECT and loop, then the rest of the page handler
QueryEmail(h) ==
    /\ handlers[h].pc = "q_email"
    /\ \E rows \in OrderByTotalDesc(
                     SelectEmail(cross_rel_index, IdsOf(handlers[h].datasets))) :
         LET rec == handlers[h]
             email == EmailLoop(rows, rec.combined_keys, {})
         IN handlers' = [handlers EXCEPT ![h] =
               [rec EXCEPT !.pc = "done",
                           !.response = GroupsResponse(rec.req, rec.combined,
                                                       rec.phone, email)]]
    /\ UNCHANGED << dataset_table, files, cross_rel_index, cross_rel_meta, txn,
                    _REBUILDING, threads, last_reindex >>

\* total_pending = pending + stale; the JSON body of the status response
StatusDone(rec) ==
    [rec EXCEPT !.pc = "done",
                !.response = [ ready |-> rec.pending + rec.stale = 0,
                               pending |-> rec.pending + rec.stale ]]

\* the for loop of cross_relations_status moves to the next dataset
StatusNext(rec) ==
    IF rec.i < Len(rec.datasets)
    THEN [rec EXCEPT !.pc = "st_check", !.i = @ + 1]
    ELSE StatusDone([rec EXCEPT !.i = @ + 1])

\* the datasets with a reindex attempt that is known to have failed: the
\* except clause of the write block has run, or the marker is set and no
\* thread is running for the dataset (the thread returned early)
FailedAttempts ==
    { d \in DatasetIds :
        \/ \E t \in ThreadIds : /\ threads[t].dataset_id = d
                                /\ threads[t].outcome = "write_failed"
        \/ /\ d \in _REBUILDING
           /\ \A t \in ThreadIds : threads[t].dataset_id # d }

\* GET /cross-relations/status up to the dataset query (failed_before is
\* history: the failed attempts that precede the request)
StartStatus(h, user) ==
    /\ handlers[h].pc = "idle"
    /\ handlers' = [handlers EXCEPT ![h] =
         IF user = 0
         THEN [IdleHandler EXCEPT !.pc = "done", !.kind = "status",
                                  !.response = [ready |-> FALSE, pending |-> 0]]
         ELSE [IdleHandler EXCEPT !.pc = "st_pending", !.kind = "status",
                                  !.datasets = DatasetsOf(user),
                                  !.failed_before = FailedAttempts]]
    /\ UNCHANGED << dataset_table, files, cross_rel_index, cross_rel_meta, txn,
                    _REBUILDING, threads, last_reindex >>

\* with _rebuild_lock: pending = sum(1 for ds in datasets if _REBUILDING.get(ds.id))
StatusPending(h) ==
    /\ handlers[h].pc = "st_pending"
    /\ LET rec == handlers[h]
           counted == [rec EXCEPT !.pending =
                          Cardinality({ k \in 1..Len(rec.datasets) :
                                          rec.datasets[k].id \in _REBUILDING })]
       IN handlers' = [handlers EXCEPT ![h] =
            IF rec.datasets = <<>> THEN StatusDone(counted)
            ELSE [counted EXCEPT !.pc = "st_check", !.i = 1]]
    /\ UNCHANGED << dataset_table, files, cross_rel_index, cross_rel_meta, txn,
                    _REBUILDING, threads, last_reindex >>

\* if _file_mtime(raw_path) != _get_indexed_mtime(ds.id):
StatusCheck(h) ==
    /\ handlers[h].pc = "st_check"
    /\ LET rec == handlers[h]
           ds == rec.datasets[rec.i]
       IN handlers' = [handlers EXCEPT ![h] =
            IF _file_mtime(ds.id) # _get_indexed_mtime(ds.id)
            THEN [rec EXCEPT !.pc = "st_lock"]
            ELSE StatusNext(rec)]
    /\ UNCHANGED << dataset_table, files, cross_rel_index, cross_rel_meta, txn,
                    _REBUILDING, threads, last_reindex >>

\* a status handler that schedules the stale dataset it finds
StatusLock_Schedules(h) ==
    /\ handlers[h].pc = "st_lock"
    /\ LET rec == handlers[h]
           ds == rec.datasets[rec.i]
           start == ds.id \notin _REBUILDING /\ FreeThreads # {}
       IN /\ handlers' = [handlers EXCEPT ![h] =
                StatusNext(IF ds.id \notin _REBUILDING
                           THEN [rec EXCEPT !.stale = @ + 1]
                           ELSE rec)]
          /\ _REBUILDING' = IF start THEN _REBUILDING \cup {ds.id} ELSE _REBUILDING
          /\ threads' = IF start
                        THEN StartThread(threads, First(FreeThreads), ds,
                                         _file_mtime(ds.id))
                        ELSE threads
    /\ UNCHANGED << dataset_table, files, cross_rel_index, cross_rel_meta, txn,
                    last_reindex >>

\* with _rebuild_lock: if not _REBUILDING.get(ds.id, False): stale += 1
StatusLock(h) ==
    /\ handlers[h].pc = "st_lock"
    /\ LET rec == handlers[h]
           ds == rec.datasets[rec.i]
       IN handlers' = [handlers EXCEPT ![h] =
            StatusNext(IF ds.id \notin _REBUILDING
                       THEN [rec EXCEPT !.stale = @ + 1]
                       ELSE rec)]
    /\ UNCHANGED << dataset_table, files, cross_rel_index, cross_rel_meta, txn,
                    _REBUILDING, threads, last_reindex >>

\* ------------------------------------------------------------------------
\* GET /cross-relations/records
\* ------------------------------------------------------------------------

\* "if phone" / "if email": the parameter is neither None nor ''
Supplied(val) == val # None /\ val # <<>>

\* fillna(""): a missing cell is returned as the empty string
fillna(row) == [k \in 1..Len(row) |-> IF row[k] = None THEN <<>> ELSE row[k]]

\* The body of the loop of cross_relation_records for a file that was
\* loaded: detection, normalisation, the mask and the matched rows
\* (rows: their positions in the file).
MatchRecords(table, phone, email) ==
    LET df   == DropMarkers(table)
        cols == _detect_cols(df)
        phone_norm == [r \in 1..Len(df.rows) |-> normalize_phone(cols.phone[r])]
        email_norm == [r \in 1..Len(df.rows) |-> normalize_email(cols.email[r])]
        matched == SelectSeq([r \in 1..Len(df.rows) |-> r], LAMBDA r :
                      /\ (Supplied(phone) /\ cols.has_phone) => phone_norm[r] = phone
                      /\ (Supplied(email) /\ cols.has_email) => email_norm[r] = email)
    IN
    [ phone_col |-> cols.has_phone, email_col |-> cols.has_email,
      columns |-> df.columns, rows |-> matched,
      records |-> [k \in 1..Len(matched) |-> fillna(df.rows[matched[k]])] ]

\* Dataset.id.in_(file_id_list), and Dataset.user_id == eff_id unless admin
RecordDatasets(user, file_ids) ==
    SelectSeq(dataset_table, LAMBDA ds :
        /\ ds.id \in file_ids
        /\ user_role(user) = "admin" \/ ds.user_id = user)

RecordsResponse(rec) ==
    [rec EXCEPT !.pc = "done", !.response = [file_groups |-> rec.file_groups]]

\* the handler up to the loop over the datasets
StartRecords(h, req) ==
    /\ handlers[h].pc = "idle"
    /\ handlers' = [handlers EXCEPT ![h] =
         LET rec == [IdleHandler EXCEPT !.kind = "records", !.req = req] IN
         IF req.user = 0 \/ req.file_ids = {}
         THEN RecordsResponse(rec)
         ELSE LET datasets == RecordDatasets(req.user, req.file_ids) IN
              IF datasets = <<>> THEN RecordsResponse(rec)
              ELSE [rec EXCEPT !.pc = "rec_load", !.datasets = datasets, !.i = 1]]
    /\ UNCHANGED << dataset_table, files, cross_rel_index, cross_rel_meta, txn,
                    _REBUILDING, threads, last_reindex >>

\* a loop that gives up at the first file that cannot be loaded
RecordsLoad_StopsAtFailure(h) ==
    /\ handlers[h].pc = "rec_load"
    /\ LET rec == handlers[h]
           ds  == rec.datasets[rec.i]
           c   == files[ds.id].content
           m   == MatchRecords(Tables[c], rec.req.phone, rec.req.email)
           added == IF m.rows = <<>> THEN rec
                    ELSE [rec EXCEPT !.file_groups =
                            Append(@, [dataset_id |-> ds.id] @@ m)]
       IN handlers' = [handlers EXCEPT ![h] =
            IF c \notin TableIds
            THEN RecordsResponse([rec EXCEPT !.i = @ + 1])
            ELSE IF rec.i < Len(rec.datasets)
            THEN [added EXCEPT !.i = @ + 1]
            ELSE RecordsResponse([added EXCEPT !.i = @ + 1])]
    /\ UNCHANGED << dataset_table, files, cross_rel_index, cross_rel_meta, txn,
                    _REBUILDING, threads, last_reindex >>

\* one round of "for ds in datasets": _load_file_df returns None for a
\* missing file and for one read_file cannot parse (continue); a dataset
\* without matched row adds nothing
RecordsLoad(h) ==
    /\ handlers[h].pc = "rec_load"
    /\ LET rec == handlers[h]
           ds  == rec.datasets[rec.i]
           c   == files[ds.id].content
           m   == MatchRecords(Tables[c], rec.req.phone, rec.req.email)
           added == IF c \notin TableIds THEN rec
                    ELSE IF m.rows = <<>> THEN rec
                    ELSE [rec EXCEPT !.file_groups =
                            Append(@, [dataset_id |-> ds.id] @@ m)]
       IN handlers' = [handlers EXCEPT ![h] =
            IF rec.i < Len(rec.datasets)
            THEN [added EXCEPT !.i = @ + 1]
            ELSE RecordsResponse([added EXCEPT !.i = @ + 1])]
    /\ UNCHANGED << dataset_table, files, cross_rel_index, cross_rel_meta, txn,
                    _REBUILDING, threads, last_reindex >>

\* the response is sent; the worker takes the next request
Return(h) ==
    /\ handlers[h].pc = "done"
    /\ handlers' = [handlers EXCEPT ![h] = IdleHandler]
    /\ UNCHANGED << dataset_table, files, cross_rel_index, cross_rel_meta, txn,
                    _REBUILDING, threads, last_reindex >>

\* ------------------------------------------------------------------------
\* Specification
\* ------------------------------------------------------------------------

\* the requests made of the page: caller (0: no session), file_ids, mode,
\* cross_user, page
PageRequests ==
    { [user |-> AdminId, file_ids |-> {}, mode |-> "combined",
       cross_user |-> FALSE, page |-> 1],
      [user |-> AdminId, file_ids |-> {2}, mode |-> "phone",
       cross_user |-> TRUE, page |-> 2],
      [user |-> 2, file_ids |-> {}, mode |-> "email",
       cross_user |-> FALSE, page |-> 1],
      [user |-> 0, file_ids |-> {}, mode |-> "combined",
       cross_user |-> FALSE, page |-> 1] }

StatusCallers == {0, AdminId, 3}

\* what a file can be replaced by: a table without phone or email column,
\* or bytes read_file cannot parse
WriteContents == {3, Corrupt}

\* the files that are rewritten or deleted after their upload
ChangingFiles == {1}

FileNext ==
    \/ \E d \in ChangingFiles, c \in WriteContents : WriteFile(d, c)
    \/ \E d \in ChangingFiles : DeleteFile(d)

ThreadNext ==
    \/ \E t \in ThreadIds : IndexExists(t)
    \/ \E t \in ThreadIds : IndexRead(t)
    \/ \E t \in ThreadIds : TxnWrite(t)
    \/ \E t \in ThreadIds : TxnCommit(t)
    \/ \E t \in ThreadIds : WriteFails(t)
    \/ \E t \in ThreadIds : IndexFinally(t)

EnsureNextStep ==
    \/ \E h \in DOMAIN handlers : EnsureCheck(h)
    \/ \E h \in DOMAIN handlers : EnsureSkip(h)
    \/ \E h \in DOMAIN handlers : EnsureStart(h)

QueryNext ==
    \/ \E h \in DOMAIN handlers : QueryCombined(h)
    \/ \E h \in DOMAIN handlers : QueryPhone(h)
    \/ \E h \in DOMAIN handlers : QueryEmail(h)

StatusNextStep ==
    \/ \E h \in DOMAIN handlers, u \in StatusCallers : StartStatus(h, u)
    \/ \E h \in DOMAIN handlers : StatusPending(h)
    \/ \E h \in DOMAIN handlers : StatusCheck(h)
    \/ \E h \in DOMAIN handlers : StatusLock(h)

\* One request at a time, against the background threads and the file
\* system.
Next ==
    \/ FileNext
    \/ ThreadNext
    \/ \E h \in DOMAIN handlers, req \in PageRequests : StartPage(h, req)
    \/ EnsureNextStep
    \/ QueryNext
    \/ StatusNextStep
    \/ \E h \in DOMAIN handlers : Return(h)

Spec == Init /\ [][Next]_vars

\* Two page requests at a time, for the file that changes.
InitTwo ==
    /\ dataset_table = InitialDatasets
    /\ files = [d \in {1, 2} |-> [mtime |-> 1, content |-> d]]
    /\ cross_rel_index = [d \in {1, 2} |-> <<>>]
    /\ cross_rel_meta = [d \in {1, 2} |-> <<>>]
    /\ txn = NoTxn
    /\ _REBUILDING = {}
    /\ threads = [t \in ThreadIds |-> FreeThread]
    /\ handlers = [h \in {1, 2} |-> IdleHandler]
    /\ last_reindex = [d \in {1, 2} |-> <<>>]

PageRequestsTwo ==
    { [user |-> AdminId, file_ids |-> {1}, mode |-> "combined",
       cross_user |-> FALSE, page |-> 1] }

NextTwo ==
    \/ FileNext
    \/ ThreadNext
    \/ \E h \in DOMAIN handlers, req \in PageRequestsTwo : StartPage(h, req)
    \/ EnsureNextStep
    \/ QueryNext
    \/ \E h \in DOMAIN handlers : Return(h)

SpecTwo == InitTwo /\ [][NextTwo]_vars

\* A page request and a status poll at a time: the browser polls the
\* status every 2 seconds while pages are requested.
PollCallers == {0, 2}

NextPoll ==
    \/ FileNext
    \/ ThreadNext
    \/ \E req \in PageRequestsTwo : StartPage(1, req)
    \/ EnsureNextStep
    \/ QueryNext
    \/ \E u \in PollCallers : StartStatus(2, u)
    \/ \E h \in DOMAIN handlers : StatusPending(h)
    \/ \E h \in DOMAIN handlers : StatusCheck(h)
    \/ \E h \in DOMAIN handlers : StatusLock(h)
    \/ \E h \in DOMAIN handlers : Return(h)

SpecPoll == InitTwo /\ [][NextPoll]_vars

\* ------------------------------------------------------------------------
\* The group query on every small index
\* ------------------------------------------------------------------------

Txt_Mail2 == <<"z", "@", "y">>

\* the (phone_norm, email_norm) values of the index rows
RowValues ==
    << <<Txt_Mobile, Txt_Mail>>, <<Txt_Mobile, Txt_Mail2>>, <<Txt_Mobile, None>>,
       <<None, Txt_Mail>>, <<Txt_Land, Txt_Mail>> >>

\* bound: the number of rows in the whole index
MaxIndexRows == 3

\* three datasets, two of them of one user
QueryDatasets ==
    << [id |-> 1, user_id |-> 2], [id |-> 2, user_id |-> 3],
       [id |-> 3, user_id |-> 2] >>

\* the rows of one dataset, as positions in RowValues: the order of the
\* rows of a table does not matter to GROUP BY, so one order is taken
SortedRowSeqs ==
    UNION { { s \in [1..n -> 1..Len(RowValues)] :
                \A i, j \in 1..n : i < j => s[i] <= s[j] } :
            n \in 0..MaxIndexRows }

IndexContents ==
    { [d \in 1..Len(QueryDatasets) |->
         [k \in 1..Len(c[d]) |->
            [ dataset_id |-> d, user_id |-> QueryDatasets[d].user_id,
              phone_norm |-> RowValues[c[d][k]][1],
              email_norm |-> RowValues[c[d][k]][2], mtime |-> 1 ]]] :
      c \in { x \in [1..Len(QueryDatasets) -> SortedRowSeqs] :
                Len(x[1]) + Len(x[2]) + Len(x[3]) <= MaxIndexRows } }

\* Every dataset has been indexed from its file (mtime 1) and nothing is
\* running; content 0 is a readable file that no request reads here.
InitQuery ==
    /\ dataset_table = QueryDatasets
    /\ files = [d \in 1..Len(QueryDatasets) |-> [mtime |-> 1, content |-> 0]]
    /\ cross_rel_index \in IndexContents
    /\ cross_rel_meta = [d \in 1..Len(QueryDatasets) |-> << [mtime |-> 1] >>]
    /\ txn = NoTxn
    /\ _REBUILDING = {}
    /\ threads = [t \in ThreadIds |-> FreeThread]
    /\ handlers = [h \in {1} |-> IdleHandler]
    /\ last_reindex = [d \in 1..Len(QueryDatasets) |->
                         << [mtime |-> 1, rows |-> cross_rel_index[d]] >>]

\* a call _query_groups(dataset_ids, user_ids_filter), kept with its result
ApplyQuery(h, dataset_ids, user_ids_filter) ==
    /\ handlers[h].pc = "idle"
    /\ \E result \in _query_groups(cross_rel_index, dataset_ids, user_ids_filter) :
         handlers' = [handlers EXCEPT ![h] =
            [IdleHandler EXCEPT !.pc = "done", !.kind = "query",
                !.req = [dataset_ids |-> dataset_ids,
                         user_ids_filter |-> user_ids_filter],
                !.response = result]]
    /\ UNCHANGED << dataset_table, files, cross_rel_index, cross_rel_meta, txn,
                    _REBUILDING, threads, last_reindex >>

QueryDatasetSets == { {1, 2, 3}, {1, 2}, {2, 3}, {3}, {} }

QueryFilters == { {}, {3} }

PageRequestsQuery ==
    { [user |-> AdminId, file_ids |-> {}, mode |-> "combined",
       cross_user |-> TRUE, page |-> 1],
      [user |-> AdminId, file_ids |-> {}, mode |-> "phone",
       cross_user |-> FALSE, page |-> 1],
      [user |-> 2, file_ids |-> {}, mode |-> "combined",
       cross_user |-> TRUE, page |-> 1] }

NextQuery ==
    \/ \E h \in DOMAIN handlers, ids \in QueryDatasetSets, f \in QueryFilters :
          ApplyQuery(h, ids, f)
    \/ \E h \in DOMAIN handlers, req \in PageRequestsQuery : StartPage(h, req)
    \/ \E h \in DOMAIN handlers : EnsureCheck(h)
    \/ QueryNext
    \/ \E h \in DOMAIN handlers : Return(h)

SpecQuery == InitQuery /\ [][NextQuery]_vars

\* Requests over both datasets, one at a time, with an index store that
\* accepts every write; a started thread runs on (the scheduler of the
\* operating system is fair to it).
PageRequestsSeveral ==
    { [user |-> AdminId, file_ids |-> {}, mode |-> "combined",
       cross_user |-> FALSE, page |-> 1] }

RecordsRequests ==
    { [user |-> AdminId, file_ids |-> {1, 2}, phone |-> Txt_Mobile, email |-> None],
      [user |-> AdminId, file_ids |-> {1, 2}, phone |-> None, email |-> Txt_Mail],
      [user |-> 0, file_ids |-> {1, 2}, phone |-> Txt_Mobile, email |-> None] }

ThreadStep(t) ==
    \/ IndexExists(t)
    \/ IndexRead(t)
    \/ TxnWrite(t)
    \/ TxnCommit(t)
    \/ IndexFinally(t)

NextSeveral ==
    \/ FileNext
    \/ \E t \in ThreadIds : ThreadStep(t)
    \/ \E h \in DOMAIN handlers, req \in PageRequestsSeveral : StartPage(h, req)
    \/ EnsureNextStep
    \/ QueryNext
    \/ \E h \in DOMAIN handlers, req \in RecordsRequests : StartRecords(h, req)
    \/ \E h \in DOMAIN handlers : RecordsLoad(h)
    \/ \E h \in DOMAIN handlers : Return(h)

\* ENABLED <<ThreadStep(t)>>_vars, written out: a thread waits only at the
\* write block, for the write lock of the database
ThreadEnabled(t) ==
    \/ threads[t].pc \in {"exists", "read", "finally"}
    \/ threads[t].pc = "write" /\ txn.owner = 0
    \/ threads[t].pc = "commit" /\ txn.owner = t

\* weak fairness of every thread, WF_vars(ThreadStep(t)), with ENABLED
\* replaced by ThreadEnabled
SpecSeveral ==
    /\ Init /\ [][NextSeveral]_vars
    /\ \A t \in ThreadIds :
          []<>(~ThreadEnabled(t)) \/ []<><<ThreadStep(t)>>_vars

\* ------------------------------------------------------------------------
\* Properties
\* ------------------------------------------------------------------------

\* thread t ends in this step
Ends(t) == threads[t].pc # "free" /\ threads'[t].pc = "free"

\* thread t fails in this step: the file is missing, the read raises, or a
\* statement of the write block raises
Fails(t) ==
    \/ threads[t].pc \in {"exists", "read"} /\ threads'[t].pc = "free"
    \/ /\ threads[t].pc \in {"write", "commit"}
       /\ threads'[t].pc = "finally"
       /\ threads'[t].outcome = "write_failed"

RunningFor(d) == { t \in ThreadIds : Running(t) /\ threads[t].dataset_id = d }

\* the dataset handler h is working on
CurrentDataset(h) == handlers[h].datasets[handlers[h].i]

\* C1: every background reindex task, whatever its outcome, has removed its
\* dataset from the rebuilding set when it ends.
C1_TaskClearsMarker ==
    [][ \A t \in ThreadIds :
          Ends(t) => threads[t].dataset_id \notin _REBUILDING' ]_vars

\* C2: at most one reindex task per dataset id is in flight at any time, and
\* an ensureIndexed call that finds a stale dataset already marked rebuilding
\* starts no task and leaves the rebuilding set unchanged.
C2_OneTaskPerDataset ==
    /\ [](\A d \in DatasetIds : Cardinality(RunningFor(d)) <= 1)
    /\ [][ \A h \in DOMAIN handlers :
             ( /\ handlers[h].pc = "ensure_mark"
               /\ CurrentDataset(h).id \in _REBUILDING
               /\ handlers'[h] # handlers[h] )
             => /\ _REBUILDING' = _REBUILDING
                /\ threads' = threads
                /\ handlers'[h].started = handlers[h].started ]_vars

\* two concurrent calls: one has started the task of a dataset, the other
\* has found the dataset stale and marked, and the task is still in flight
C2_Witness ==
    \E h1, h2 \in DOMAIN handlers, d \in DatasetIds :
        /\ h1 # h2
        /\ d \in handlers[h1].started
        /\ d \in handlers[h2].skipped
        /\ RunningFor(d) # {}

\* what the last successful reindex of d was to leave in the store
Installed(d) ==
    IF last_reindex[d] = <<>>
    THEN << <<>>, <<>> >>
    ELSE << last_reindex[d][1].rows, << [mtime |-> last_reindex[d][1].mtime] >> >>

\* C3: whatever a reader (a SELECT of the group query, getIndexedMtime)
\* reads for a dataset while it is being reindexed is the complete row set
\* and the metadata row of one reindex, the last one that committed: never
\* the rows deleted and not yet inserted, never rows and metadata of two
\* different reindexes.
C3_ReadersSeeOneReindex ==
    \A d \in DatasetIds :
        << cross_rel_index[d], cross_rel_meta[d] >> = Installed(d)

\* a handler has just read the metadata of an indexed dataset whose rows a
\* transaction in progress is replacing
C3_Witness ==
    \E h \in DOMAIN handlers :
        /\ handlers[h].pc \in {"ensure_mark", "st_lock"}
        /\ txn.owner # 0
        /\ txn.dataset_id = CurrentDataset(h).id
        /\ cross_rel_meta[txn.dataset_id] # <<>>
        /\ cross_rel_index[txn.dataset_id] # <<>>
        /\ txn.index # cross_rel_index[txn.dataset_id]

\* C4: a reindex that fails (file missing, file unreadable, write raising)
\* leaves the index rows and the metadata rows of every dataset as they were,
\* its own dataset's as they were when it started, and ends through its
\* return or its finally block.
C4_FailedReindexChangesNothing ==
    [][ \A t \in ThreadIds :
          Fails(t) =>
            /\ cross_rel_index' = cross_rel_index
            /\ cross_rel_meta' = cross_rel_meta
            /\ << cross_rel_index'[threads[t].dataset_id],
                  cross_rel_meta'[threads[t].dataset_id] >> = threads[t].before
            /\ threads'[t].pc \in {"free", "finally"} ]_vars

\* a write has failed on a dataset that was indexed before, with the
\* transaction holding other rows than the committed ones
C4_Witness ==
    \E t \in ThreadIds :
        /\ threads[t].pc = "finally"
        /\ threads[t].outcome = "write_failed"
        /\ threads[t].before[2] # <<>>
        /\ threads[t].before[1] # threads[t].rows
        /\ << cross_rel_index[threads[t].dataset_id],
              cross_rel_meta[threads[t].dataset_id] >> = threads[t].before

\* handler h serves the page for a logged-in caller and its call of
\* _ensure_datasets_indexed has returned (all_ready is the value returned)
EnsureReturned(h) ==
    /\ handlers[h].kind = "page"
    /\ handlers[h].req.user # 0
    /\ handlers[h].pc \in {"q_combined", "q_phone", "q_email", "done"}

\* C5: ensureIndexed returns true exactly when every dataset it checked had
\* its file's mtime equal to the indexed mtime at the check; it returns false
\* for a stale dataset whose rebuild is already in flight; a call that
\* returns true has marked no dataset and started no task.
C5_EnsureResult ==
    \A h \in DOMAIN handlers :
        EnsureReturned(h) =>
            /\ handlers[h].all_ready = ~handlers[h].any_stale
            /\ handlers[h].skipped # {} => ~handlers[h].all_ready
            /\ handlers[h].all_ready =>
                  handlers[h].started = {} /\ handlers[h].skipped = {}

\* a call has returned false only because a stale dataset was already being
\* rebuilt
C5_Witness ==
    \E h \in DOMAIN handlers :
        /\ EnsureReturned(h)
        /\ ~handlers[h].all_ready
        /\ handlers[h].skipped # {}
        /\ handlers[h].started = {}

\* thread t commits in this step
Commits(t) ==
    /\ threads[t].pc = "commit"
    /\ threads'[t].pc = "finally"
    /\ threads'[t].outcome = "ok"

\* C6: when a reindex of d with mtime m commits, getIndexedMtime(d) is m;
\* and an ensureIndexed check of d made while the file's mtime is the mtime
\* of d's last successful reindex treats d as current: it goes on to the next
\* dataset, marks nothing and starts nothing.
C6_FreshAfterReindex ==
    [][ /\ \A t \in ThreadIds :
             Commits(t) =>
                _get_indexed_mtime(threads[t].dataset_id)' = threads[t].mtime
        /\ \A h \in DOMAIN handlers :
             ( /\ handlers[h].pc = "ensure_check"
               /\ last_reindex[CurrentDataset(h).id] # <<>>
               /\ _file_mtime(CurrentDataset(h).id)
                     = last_reindex[CurrentDataset(h).id][1].mtime
               /\ handlers'[h] # handlers[h] )
             => /\ handlers'[h].pc # "ensure_mark"
                /\ handlers'[h].all_ready = handlers[h].all_ready
                /\ handlers'[h].started = handlers[h].started
                /\ _REBUILDING' = _REBUILDING
                /\ threads' = threads ]_vars

\* a call has found every dataset current, each after a successful reindex,
\* one of them a reindex with the mtime of a rewritten file
C6_Witness ==
    \E h \in DOMAIN handlers :
        /\ EnsureReturned(h)
        /\ handlers[h].all_ready
        /\ handlers[h].datasets # <<>>
        /\ \A d \in IdsOf(handlers[h].datasets) :
              /\ last_reindex[d] # <<>>
              /\ _file_mtime(d) = last_reindex[d][1].mtime
        /\ \E d \in IdsOf(handlers[h].datasets) : last_reindex[d][1].mtime > 1

\* C7: all index rows of a dataset carry one indexed_mtime, the one of the
\* dataset's metadata row, which is the mtime its most recent successful
\* reindex was given; a dataset with index rows has a metadata row.
C7_RowsCarryMetaMtime ==
    \A d \in DatasetIds :
        /\ cross_rel_index[d] # <<>> => cross_rel_meta[d] # <<>>
        /\ cross_rel_meta[d] # <<>> =>
              /\ \A k \in 1..Len(cross_rel_index[d]) :
                    cross_rel_index[d][k].mtime = cross_rel_meta[d][1].mtime
              /\ last_reindex[d] # <<>>
              /\ cross_rel_meta[d][1].mtime = last_reindex[d][1].mtime
        /\ cross_rel_meta[d] = <<>> => last_reindex[d] = <<>>

\* a dataset reindexed a second time, with rows, after its file changed
C7_Witness ==
    \E d \in DatasetIds :
        /\ cross_rel_index[d] # <<>>
        /\ cross_rel_meta[d] # <<>>
        /\ cross_rel_meta[d][1].mtime # files[d].mtime

C9_QueryOnlyWhenReady ==
    \A h \in DOMAIN handlers :
        ( handlers[h].kind = "page" /\ handlers[h].req.user # 0 ) =>
            /\ handlers[h].pc \in {"q_phone", "q_email"} => handlers[h].queried
            /\ handlers[h].queried =>
                  /\ handlers[h].all_ready
                  /\ ~handlers[h].any_stale
                  /\ handlers[h].pc \in {"q_phone", "q_email", "done"}
            /\ ( handlers[h].pc = "done" /\ ~handlers[h].all_ready ) =>
                  /\ ~handlers[h].queried
                  /\ handlers[h].response.groups = <<>>
                  /\ handlers[h].response.combined_count = 0
                  /\ handlers[h].response.phone_count = 0
                  /\ handlers[h].response.email_count = 0
                  /\ handlers[h].response.page = 1
                  /\ handlers[h].response.total_pages = 1
                  /\ handlers[h].response.is_computing
            /\ ( handlers[h].pc = "done" /\ handlers[h].all_ready ) =>
                  ~handlers[h].response.is_computing

\* an indexing-in-progress response while the index holds groups of the
\* requested datasets
C9_Witness ==
    \E h \in DOMAIN handlers :
        /\ handlers[h].kind = "page"
        /\ handlers[h].req.user # 0
        /\ handlers[h].pc = "done"
        /\ ~handlers[h].all_ready
        /\ handlers[h].response.is_computing
        /\ SelectCombined(cross_rel_index, IdsOf(handlers[h].datasets)) # {}

\* C10: a status call over the caller's datasets counts every dataset at
\* most once, so pending never exceeds the number of datasets, and ready is
\* true exactly when pending is 0.
C10_PendingCountsDatasetsOnce ==
    \A h \in DOMAIN handlers :
        ( /\ handlers[h].kind = "status"
          /\ handlers[h].pc = "done"
          /\ handlers[h].datasets # <<>> ) =>
            /\ handlers[h].response.pending <= Len(handlers[h].datasets)
            /\ handlers[h].response.ready = (handlers[h].response.pending = 0)


\* C11: a status call that begins after a failed reindex attempt of a
\* dataset whose file was never touched (mtime 1) and that was never
\* indexed (indexed mtime 0, every attempt failed) reports ready false and
\* pending >= 1.
C11_StaleAfterFailureIsPending ==
    \A h \in DOMAIN handlers :
        ( /\ handlers[h].kind = "status"
          /\ handlers[h].pc = "done"
          /\ \E d \in IdsOf(handlers[h].datasets) \cap handlers[h].failed_before :
                /\ files[d] = [mtime |-> 1, content |-> d]
                /\ last_reindex[d] = <<>> ) =>
            /\ ~handlers[h].response.ready
            /\ handlers[h].response.pending >= 1


\* the file of d is as it was uploaded: never rewritten, never deleted
Untouched(d) == files[d] = [mtime |-> 1, content |-> d]

\* dataset_table row of dataset d
DatasetRow(d) == CHOOSE ds \in { dataset_table[k] : k \in 1..Len(dataset_table) } : ds.id = d

\* C12, ensureIndexed: whatever the files of the other datasets are, the
\* loop visits every dataset in turn, a stale dataset goes to the lock, an
\* unmarked one is marked and gets a task.
C12_EnsureStep ==
    \A h \in DOMAIN handlers :
        /\ ( /\ handlers[h].pc = "ensure_check"
             /\ _file_mtime(CurrentDataset(h).id)
                   # _get_indexed_mtime(CurrentDataset(h).id)
             /\ handlers'[h] # handlers[h] )
           => /\ handlers'[h].pc = "ensure_mark"
              /\ handlers'[h].i = handlers[h].i
        /\ ( /\ handlers[h].pc = "ensure_mark"
             /\ CurrentDataset(h).id \notin _REBUILDING
             /\ handlers'[h] # handlers[h] )
           => /\ CurrentDataset(h).id \in _REBUILDING'
              /\ \E t \in ThreadIds :
                    /\ ~Running(t)
                    /\ threads'[t].pc = "exists"
                    /\ threads'[t].dataset_id = CurrentDataset(h).id
        /\ ( /\ handlers[h].pc \in {"ensure_check", "ensure_mark"}
             /\ handlers'[h] # handlers[h]
             /\ handlers'[h].pc # "ensure_mark" )
           => /\ handlers'[h].i = handlers[h].i + 1
              /\ handlers[h].i < Len(handlers[h].datasets)
                    => handlers'[h].pc = "ensure_check"

\* C12, lookupRecords: a finished call holds, for every requested dataset
\* whose file is untouched and has matching rows, these rows, whatever
\* happened to the files of the other requested datasets; and nothing for a
\* dataset whose file is missing or unreadable since before the call.
C12_RecordsDone ==
    \A h \in DOMAIN handlers :
        ( /\ handlers[h].kind = "records"
          /\ handlers[h].pc = "done"
          /\ handlers[h].req.user # 0 ) =>
            \A d \in IdsOf(RecordDatasets(handlers[h].req.user,
                                          handlers[h].req.file_ids)) :
                /\ Untouched(d) =>
                     LET m == MatchRecords(Tables[d], handlers[h].req.phone,
                                           handlers[h].req.email)
                     IN m.rows # <<>> =>
                          \E k \in 1..Len(handlers[h].response.file_groups) :
                             /\ handlers[h].response.file_groups[k].dataset_id = d
                             /\ handlers[h].response.file_groups[k].records = m.records

\* C12: in one ensureIndexed call over several stale datasets, one of them
\* with a missing or unreadable file, every other stale dataset is scheduled
\* and (the index store accepting writes) its reindex ends with its rows and
\* metadata row written; in one lookupRecords call a dataset whose file is
\* missing or cannot be loaded is skipped and the matching rows of the
\* other datasets are returned.
C12_FailuresAreIsolated ==
    /\ [][C12_EnsureStep]_vars
    /\ []C12_RecordsDone
    /\ \A d \in {1, 2} :
          ( RunningFor(d) # {} /\ Untouched(d) )
             ~> ( \/ ~Untouched(d)
                  \/ /\ cross_rel_meta[d] = << [mtime |-> 1] >>
                     /\ cross_rel_index[d]
                           = IndexRows(d, DatasetRow(d).user_id, Tables[d], 1) )

\* lookupRecords has skipped dataset 1, whose file cannot be loaded, and
\* returned the rows of dataset 2; dataset 1 was scheduled with such a file
\* (its task ended at the file) and dataset 2 has been indexed
C12_Witness ==
    \E h \in DOMAIN handlers :
        /\ handlers[h].kind = "records"
        /\ handlers[h].pc = "done"
        /\ handlers[h].req.user # 0
        /\ files[1].content \in {Corrupt, Absent}
        /\ Len(handlers[h].datasets) = 2
        /\ Len(handlers[h].response.file_groups) = 1
        /\ handlers[h].response.file_groups[1].dataset_id = 2
        /\ 1 \in _REBUILDING /\ RunningFor(1) = {}
        /\ cross_rel_index[2] # <<>>


\* handler h holds the result of a call of _query_groups
QueryDone(h) == handlers[h].kind = "query" /\ handlers[h].pc = "done"

GroupsOf(seq) == { seq[k] : k \in 1..Len(seq) }

\* C13: in the result of the group query no phone-only group has the phone
\* of a returned combined group and no email-only group has the email of a
\* returned combined group.
C13_ModesAreExclusive ==
    \A h \in DOMAIN handlers :
        QueryDone(h) =>
            \A c \in GroupsOf(handlers[h].response.combined) :
                /\ \A g \in GroupsOf(handlers[h].response.phone) : g.phone # c.phone
                /\ \A g \in GroupsOf(handlers[h].response.email) : g.email # c.email

\* a returned combined group whose phone also groups rows outside the pair:
\* the phone query returns its phone with more rows than the pair has
C13_Witness ==
    \E h \in DOMAIN handlers :
        /\ QueryDone(h)
        /\ \E c \in GroupsOf(handlers[h].response.combined) :
             \E row \in SelectPhone(cross_rel_index, handlers[h].req.dataset_ids) :
                /\ row.key = c.phone
                /\ row.total_records > c.total_records


\* the groups of all three modes in the result held by h
AllGroups(h) ==
    GroupsOf(handlers[h].response.combined)
       \cup GroupsOf(handlers[h].response.phone)
       \cup GroupsOf(handlers[h].response.email)

\* C14: every group returned by the group query, in each mode and under
\* each filter, has at least 2 distinct dataset ids, all of them requested.
C14_GroupsSpanRequestedDatasets ==
    \A h \in DOMAIN handlers :
        QueryDone(h) =>
            \A g \in AllGroups(h) :
                /\ Cardinality(g.file_ids) >= 2
                /\ g.file_ids \subseteq handlers[h].req.dataset_ids

\* a filtered query over two of the datasets returns a phone-only group
\* whose phone also occurs in the dataset that was not requested
C14_Witness ==
    \E h \in DOMAIN handlers :
        /\ QueryDone(h)
        /\ handlers[h].req.dataset_ids = {2, 3}
        /\ handlers[h].req.user_ids_filter # {}
        /\ \E g \in GroupsOf(handlers[h].response.phone) :
              \E k \in 1..Len(cross_rel_index[1]) :
                 cross_rel_index[1][k].phone_norm = g.phone


\* the index rows of the datasets requested in the call held by h
RequestedRows(h) ==
    UNION { { << d, k >> : k \in 1..Len(cross_rel_index[d]) } :
            d \in handlers[h].req.dataset_ids \cap DatasetIds }

\* the requested rows with phone p and email e
RowsWithPair(h, p, e) ==
    { r \in RequestedRows(h) :
        /\ cross_rel_index[r[1]][r[2]].phone_norm = p
        /\ cross_rel_index[r[1]][r[2]].email_norm = e }

\* the pairs with both parts non-null that occur in at least 2 requested
\* datasets
SharedPairs(h) ==
    { pe \in { << cross_rel_index[r[1]][r[2]].phone_norm,
                  cross_rel_index[r[1]][r[2]].email_norm >> : r \in RequestedRows(h) } :
        /\ pe[1] # None
        /\ pe[2] # None
        /\ Cardinality({ r[1] : r \in RowsWithPair(h, pe[1], pe[2]) }) >= 2 }

\* C15: without filter, the combined groups are exactly the pairs with both
\* parts non-null that occur in index rows of at least 2 requested datasets,
\* one group per pair, with total_records the number of requested rows with
\* the pair and file_ids / user_ids the distinct ids of these rows.
C15_CombinedGroupsAreSharedPairs ==
    \A h \in DOMAIN handlers :
        ( QueryDone(h) /\ handlers[h].req.user_ids_filter = {} ) =>
            LET combined == handlers[h].response.combined IN
            /\ { << g.phone, g.email >> : g \in GroupsOf(combined) } = SharedPairs(h)
            /\ Len(combined) = Cardinality(SharedPairs(h))
            /\ \A g \in GroupsOf(combined) :
                  LET rows == RowsWithPair(h, g.phone, g.email) IN
                  /\ g.mode = "combined"
                  /\ g.total_records = Cardinality(rows)
                  /\ g.file_ids = { r[1] : r \in rows }
                  /\ g.user_ids =
                        { cross_rel_index[r[1]][r[2]].user_id : r \in rows }

\* a combined group over part of the requested datasets, with two rows in
\* one of them
C15_Witness ==
    \E h \in DOMAIN handlers :
        /\ QueryDone(h)
        /\ handlers[h].req.user_ids_filter = {}
        /\ \E g \in GroupsOf(handlers[h].response.combined) :
              /\ g.total_records > Cardinality(g.file_ids)
              /\ g.file_ids # handlers[h].req.dataset_ids


\* the non-null phones that occur in at least 2 requested datasets
SharedPhones(h) ==
    { p \in { cross_rel_index[r[1]][r[2]].phone_norm : r \in RequestedRows(h) } :
        /\ p # None
        /\ Cardinality({ r[1] : r \in { x \in RequestedRows(h) :
               cross_rel_index[x[1]][x[2]].phone_norm = p } }) >= 2 }

\* the non-null emails that occur in at least 2 requested datasets
SharedEmails(h) ==
    { e \in { cross_rel_index[r[1]][r[2]].email_norm : r \in RequestedRows(h) } :
        /\ e # None
        /\ Cardinality({ r[1] : r \in { x \in RequestedRows(h) :
               cross_rel_index[x[1]][x[2]].email_norm = e } }) >= 2 }

\* datasets 1 and 2 share a row (p, e); dataset 3 holds p with another email
SharedPairAndThirdFile ==
    /\ cross_rel_index[1] = << [dataset_id |-> 1, user_id |-> 2, phone_norm |-> Txt_Mobile,
                                email_norm |-> Txt_Mail, mtime |-> 1] >>
    /\ cross_rel_index[2] = << [dataset_id |-> 2, user_id |-> 3, phone_norm |-> Txt_Mobile,
                                email_norm |-> Txt_Mail, mtime |-> 1] >>
    /\ cross_rel_index[3] = << [dataset_id |-> 3, user_id |-> 2, phone_norm |-> Txt_Mobile,
                                email_norm |-> Txt_Mail2, mtime |-> 1] >>

\* C16: without filter, the phone-only groups are exactly the non-null
\* phones of at least 2 requested datasets that are not the phone of a
\* combined group's key, one group each (the same for emails); and with
\* datasets 1, 2 sharing a row (p, e) and dataset 3 holding p with another
\* email the result is one combined group over {1, 2} and nothing else.
C16_SingleKeyGroups ==
    \A h \in DOMAIN handlers :
        ( QueryDone(h) /\ handlers[h].req.user_ids_filter = {} ) =>
            LET r == handlers[h].response IN
            /\ { g.phone : g \in GroupsOf(r.phone) }
                  = SharedPhones(h) \ { c.phone : c \in GroupsOf(r.combined) }
            /\ Len(r.phone) = Cardinality({ g.phone : g \in GroupsOf(r.phone) })
            /\ { g.email : g \in GroupsOf(r.email) }
                  = SharedEmails(h) \ { c.email : c \in GroupsOf(r.combined) }
            /\ Len(r.email) = Cardinality({ g.email : g \in GroupsOf(r.email) })
            /\ ( SharedPairAndThirdFile /\ handlers[h].req.dataset_ids = {1, 2, 3} ) =>
                  /\ Len(r.combined) = 1
                  /\ r.combined[1].phone = Txt_Mobile
                  /\ r.combined[1].email = Txt_Mail
                  /\ r.combined[1].file_ids = {1, 2}
                  /\ r.phone = <<>>
                  /\ r.email = <<>>

\* the query over the three datasets of the example has been made
C16_Witness ==
    \E h \in DOMAIN handlers :
        /\ QueryDone(h)
        /\ handlers[h].req.user_ids_filter = {}
        /\ handlers[h].req.dataset_ids = {1, 2, 3}
        /\ SharedPairAndThirdFile


\* C17: the groups of a page requested with cross_user set have at least 2
\* distinct owner ids each, whatever the role of the caller.
C17_CrossUserGroupsSpanOwners ==
    \A h \in DOMAIN handlers :
        ( /\ handlers[h].kind = "page"
          /\ handlers[h].pc = "done"
          /\ handlers[h].req.user # 0
          /\ handlers[h].req.cross_user
          /\ ~handlers[h].response.is_computing ) =>
            \A g \in GroupsOf(handlers[h].response.groups) :
                Cardinality(g.user_ids) >= 2


\* C18: every row that lookupRecords returns for a dataset has normalized
\* phone equal to the requested phone when a phone is supplied and
\* normalized email equal to the requested email when an email is supplied
\* (a file without phone column has no row with the requested phone).
C18_ReturnedRowsMatchKey ==
    [][ \A h \in DOMAIN handlers :
          ( /\ handlers[h].pc = "rec_load"
            /\ Len(handlers'[h].file_groups) > Len(handlers[h].file_groups) )
          => LET fg   == handlers'[h].file_groups[Len(handlers'[h].file_groups)]
                 df   == DropMarkers(Tables[files[fg.dataset_id].content])
                 cols == _detect_cols(df)
                 req  == handlers[h].req
             IN \A k \in 1..Len(fg.rows) :
                  /\ Supplied(req.phone) =>
                        normalize_phone(cols.phone[fg.rows[k]]) = req.phone
                  /\ Supplied(req.email) =>
                        normalize_email(cols.email[fg.rows[k]]) = req.email ]_vars


\* the table of content id c is readable and has neither a phone column nor
\* an email column
NoKeyColumns(c) ==
    /\ c \in TableIds
    /\ ~_detect_cols(DropMarkers(Tables[c])).has_phone
    /\ ~_detect_cols(DropMarkers(Tables[c])).has_email

\* the groups a query step of handler h has just built
StepGroups(h) ==
    CASE handlers[h].pc = "q_combined" -> GroupsOf(handlers'[h].combined)
      [] handlers[h].pc = "q_phone" -> GroupsOf(handlers'[h].phone)
      [] handlers[h].pc = "q_email" /\ handlers'[h].response.current_mode = "email"
            -> GroupsOf(handlers'[h].response.groups)
      [] OTHER -> {}

\* C19: a reindex that reads a table without phone and email column goes on
\* to the write with zero rows; when it commits, the dataset has no index
\* row and one metadata row with the mtime the reindex was given; a check
\* of ensureIndexed made while the file still has that mtime treats the
\* dataset as current; and no group built by a query has a dataset without
\* index rows among its file_ids.
C19_NoKeyColumnsIsSuccess ==
    [][ /\ \A t \in ThreadIds :
             ( /\ threads[t].pc = "read"
               /\ threads'[t] # threads[t]
               /\ NoKeyColumns(files[threads[t].dataset_id].content) )
             => /\ threads'[t].pc = "write"
                /\ threads'[t].rows = <<>>
        /\ \A t \in ThreadIds :
             ( Commits(t) /\ threads[t].rows = <<>> )
             => /\ cross_rel_index'[threads[t].dataset_id] = <<>>
                /\ cross_rel_meta'[threads[t].dataset_id]
                      = << [mtime |-> threads[t].mtime] >>
        /\ \A h \in DOMAIN handlers :
             ( /\ handlers[h].pc = "ensure_check"
               /\ handlers'[h] # handlers[h]
               /\ cross_rel_index[CurrentDataset(h).id] = <<>>
               /\ cross_rel_meta[CurrentDataset(h).id]
                     = << [mtime |-> _file_mtime(CurrentDataset(h).id)] >> )
             => /\ handlers'[h].pc # "ensure_mark"
                /\ handlers'[h].all_ready = handlers[h].all_ready
        /\ \A h \in DOMAIN handlers :
             ( /\ handlers[h].pc \in {"q_combined", "q_phone", "q_email"}
               /\ handlers'[h] # handlers[h] )
             => \A g \in StepGroups(h) :
                   \A d \in g.file_ids : cross_rel_index[d] # <<>> ]_vars

\* a page has been served from the index, with all datasets current, while
\* dataset 1's file is a table without phone and email column whose reindex
\* committed zero rows and the file's mtime
C19_Witness ==
    \E h \in DOMAIN handlers :
        /\ handlers[h].kind = "page"
        /\ handlers[h].pc = "done"
        /\ handlers[h].req.user # 0
        /\ ~handlers[h].response.is_computing
        /\ 1 \in IdsOf(handlers[h].datasets)
        /\ NoKeyColumns(files[1].content)
        /\ cross_rel_index[1] = <<>>
        /\ cross_rel_meta[1] = << [mtime |-> files[1].mtime] >>
        /\ last_reindex[1] = << [mtime |-> files[1].mtime, rows |-> <<>>] >>
        /\ files[1].mtime > 1
        /\ handlers[h].response.groups = <<>>


\* the normalized (phone, email) of each source record of the table of
\* content id c, in file order
SourceKeys(c) ==
    LET df   == DropMarkers(Tables[c])
        cols == _detect_cols(df)
    IN [r \in 1..Len(df.rows) |->
          [ phone |-> IF cols.has_phone THEN normalize_phone(cols.phone[r]) ELSE None,
            email |-> IF cols.has_email THEN normalize_email(cols.email[r]) ELSE None ]]

\* the source records that have a non-null normalized phone or email
KeyedRecords(c) ==
    SelectSeq(SourceKeys(c), LAMBDA k : k.phone # None \/ k.email # None)

\* no committed index row has both normalized fields null
C20_NoEmptyRow ==
    \A d \in DOMAIN cross_rel_index :
        \A k \in 1..Len(cross_rel_index[d]) :
            \/ cross_rel_index[d][k].phone_norm # None
            \/ cross_rel_index[d][k].email_norm # None

\* the rows a reindex computes from the table it reads are one row per
\* keyed source record, and its commit stores exactly the computed rows
C20_ReindexStep ==
    /\ \A t \in ThreadIds :
         ( /\ threads[t].pc = "read"
           /\ threads'[t].pc = "write" )
         => LET keyed == KeyedRecords(files[threads[t].dataset_id].content)
            IN /\ Len(threads'[t].rows) = Len(keyed)
               /\ \A k \in 1..Len(keyed) :
                     /\ threads'[t].rows[k].phone_norm = keyed[k].phone
                     /\ threads'[t].rows[k].email_norm = keyed[k].email
                     /\ threads'[t].rows[k].dataset_id = threads[t].dataset_id
    /\ \A t \in ThreadIds :
         Commits(t) =>
            cross_rel_index'[threads[t].dataset_id] = threads[t].rows

\* C20: no index row ever has both phone_norm and email_norm null, and the
\* rows a successful reindex stores for a dataset are exactly one row per
\* source record whose normalized phone or normalized email is non-null.
C20_RowsAreKeyedRecords ==
    []C20_NoEmptyRow /\ [][C20_ReindexStep]_vars

\* dataset 1's three-record file, one record without phone and email, has
\* been reindexed into two rows
C20_Witness ==
    /\ files[1].content = 1
    /\ Len(Tables[1].rows) = 3
    /\ Len(KeyedRecords(1)) = 2
    /\ Len(cross_rel_index[1]) = 2
    /\ last_reindex[1] # <<>>
    /\ last_reindex[1][1].rows = cross_rel_index[1]


\* ------------------------------------------------------------------------
\* The pure functions applied to bounded inputs
\* ------------------------------------------------------------------------

Txt_Mobile91 == <<"9", "1">> \o Txt_Mobile

\* modules/shared.py normalize_phone, the one detect_duplicates applies:
\* `not phone` is true of None and of ''
shared_normalize_phone(phone) ==
    IF phone = None \/ phone = <<>> THEN None
    ELSE
    LET s0 == strip(str(phone))
        s  == IF endswith(s0, <<".", "0">>) THEN Slice(s0, 1, Len(s0) - 2) ELSE s0
        digits == _RX_NON_DIGIT_sub(s)
        local  == IF startswith(digits, <<"9", "1">>) /\ Len(digits) > 10
                  THEN Slice(digits, 3, Len(digits)) ELSE digits
    IN IF 7 <= Len(local) /\ Len(local) <= 12 THEN local ELSE None

\* the column names of the tables given to detect_duplicates, classified by
\* the substring keyword and exclude lists of modules/shared.py
PHONE_KEYWORDS_match(col) == col \in { "phone" }
EMAIL_KEYWORDS_match(col) == col \in { "email" }

\* _detect_phone_email_cols for a table with at most one phone column:
\* the positions of the phone column and of the first email column, 0 if none
_detect_phone_email_cols(df) ==
    LET phone_cols == { k \in 1..Len(df.columns) : PHONE_KEYWORDS_match(df.columns[k]) }
        email_cols == { k \in 1..Len(df.columns) : EMAIL_KEYWORDS_match(df.columns[k]) }
    IN [ phone_col |-> IF phone_cols = {} THEN 0 ELSE First(phone_cols),
         email_col |-> IF email_cols = {} THEN 0 ELSE First(email_cols) ]

\* df.duplicated(subset=cols, keep=False): the row's values in cols occur in
\* another row as well (None equals None)
duplicated(rows, cols, r) ==
    \E q \in 1..Len(rows) :
        q # r /\ \A c \in cols : rows[q][c] = rows[r][c]

\* notna() & (!= "")
HasValue(v) == v # None /\ v # <<>>

\* detect_duplicates: the normalized table and, for each row, the three
\* flag columns
detect_duplicates(df) ==
    LET cols == _detect_phone_email_cols(df)
        p == cols.phone_col
        e == cols.email_col
        rows == [r \in 1..Len(df.rows) |->
                   [c \in 1..Len(df.columns) |->
                      IF c = p THEN shared_normalize_phone(df.rows[r][c])
                      ELSE IF c = e THEN normalize_email(df.rows[r][c])
                      ELSE df.rows[r][c]]]
        dup_combined(r) ==
            /\ p # 0 /\ e # 0
            /\ duplicated(rows, {p, e}, r)
            /\ HasValue(rows[r][p]) /\ HasValue(rows[r][e])
        dup_phone(r) ==
            /\ p # 0
            /\ duplicated(rows, {p}, r)
            /\ HasValue(rows[r][p])
            /\ ~dup_combined(r)
        dup_email(r) ==
            /\ e # 0
            /\ duplicated(rows, {e}, r)
            /\ HasValue(rows[r][e])
            /\ ~dup_combined(r)
    IN [ rows  |-> rows,
         flags |-> [r \in 1..Len(rows) |->
                     [ __dup_combined__ |-> dup_combined(r),
                       __dup_phone__    |-> dup_phone(r),
                       __dup_email__    |-> dup_email(r) ]] ]

\* bound: the number of rows of a table given to detect_duplicates
MaxDupRows == 3

DupLayouts ==
    { <<"phone", "email">>, <<"name", "email">>, <<"phone", "name">>,
      <<"name", "zip">> }

DupCells ==
    [ phone |-> { None, Txt_Mobile, Txt_Mobile91, Txt_Land },
      email |-> { None, Txt_Mail, Txt_MailRaw },
      name  |-> { Txt_A },
      zip   |-> { Txt_Land } ]

DupRows(cols) == { <<a, b>> : a \in DupCells[cols[1]], b \in DupCells[cols[2]] }

DupTables ==
    UNION { { [columns |-> cols, rows |-> rows] :
                rows \in UNION { [1..n -> DupRows(cols)] : n \in 0..MaxDupRows } } :
            cols \in DupLayouts }

\* the digits that follow the first digit of the 10-digit strings tried
TailDigits == { "1", "9" }

\* digit strings of length 10 that begin with 6, 7, 8 or 9
TenDigitMobiles ==
    { <<a>> \o t : a \in MobileLead, t \in [1..9 -> TailDigits] }

Txt_Digits9 ==
    <<"9", "8", "7", "6", "5", "4", "3", "2", "1", "0", "1", "2", "3", "4", "5">>
Txt_Digits2 ==
    <<"2", "3", "4", "5", "6", "7", "8", "9", "0", "1", "2", "3", "4", "5", "6">>

\* bound: the number of digits of the middle part of a phone cell
MaxBodyDigits == 13

\* the middle part: the first n digits of a mobile-like or a landline-like
\* number, written in one piece or with a dash after the fifth digit
PhoneBodies ==
    UNION { { SubSeq(d, 1, n),
              IF n > 5 THEN SubSeq(d, 1, 5) \o <<"-">> \o SubSeq(d, 6, n)
              ELSE SubSeq(d, 1, n) } :
            d \in { Txt_Digits9, Txt_Digits2 }, n \in 0..MaxBodyDigits }

PhonePrefixes ==
    { <<>>, <<"0">>, <<"9", "1">>, <<"+", "9", "1", " ">>, <<"1">>, <<" ">> }

PhoneSuffixes ==
    { <<>>, <<".", "0">>, <<" ">>, <<"-", "1", "2">>,
      <<"(", "M", ")", " ", "0", "8", "4", "6", "8", " ", "2", "2", "9", "4", "6", "2">>,
      <<" ", "0", "9", "8", "4", "8", "3", "6", "0", "1", "7", "0">>,
      <<" ", "9", "8", "4", "8", "3", "6", "0", "1", "7", "0">> }

Txt_Embedded ==
    <<"9", "8", "4", "8", "3", "6", "0", "1", "7", "0", "(", "M", ")", " ",
      "0", "8", "4", "6", "8", " ", "2", "2", "9", "4", "6", "2">>

\* the cells given to normalize_phone
PhoneInputs ==
    { None, Txt_NaN, Txt_Embedded }
    \cup TenDigitMobiles
    \cup { a \o b \o c : a \in PhonePrefixes, b \in PhoneBodies, c \in PhoneSuffixes }

\* A call of detect_duplicates or of normalize_phone is about to be made
\* with one of the inputs; the index store and the files play no part.
InitPure ==
    /\ dataset_table = InitialDatasets
    /\ files = [d \in {1, 2} |-> [mtime |-> 1, content |-> d]]
    /\ cross_rel_index = [d \in {1, 2} |-> <<>>]
    /\ cross_rel_meta = [d \in {1, 2} |-> <<>>]
    /\ txn = NoTxn
    /\ _REBUILDING = {}
    /\ threads = [t \in ThreadIds |-> FreeThread]
    /\ last_reindex = [d \in {1, 2} |-> <<>>]
    /\ \/ \E df \in DupTables :
             handlers = [h \in {1} |->
                [IdleHandler EXCEPT !.kind = "dup", !.pc = "call", !.req = df]]
       \/ \E val \in PhoneInputs :
             handlers = [h \in {1} |->
                [IdleHandler EXCEPT !.kind = "phone", !.pc = "call", !.req = val]]

\* df = detect_duplicates(df)
ApplyDetectDuplicates(h) ==
    /\ handlers[h].kind = "dup"
    /\ handlers[h].pc = "call"
    /\ handlers' = [handlers EXCEPT ![h].pc = "done",
                                    ![h].response = detect_duplicates(handlers[h].req)]
    /\ UNCHANGED << dataset_table, files, cross_rel_index, cross_rel_meta, txn,
                    _REBUILDING, threads, last_reindex >>

\* normalize_phone(val), and normalize_phone of its result
ApplyNormalizePhone(h) ==
    /\ handlers[h].kind = "phone"
    /\ handlers[h].pc = "call"
    /\ handlers' = [handlers EXCEPT ![h].pc = "done",
            ![h].response =
                [ result |-> normalize_phone(handlers[h].req),
                  again  |-> normalize_phone(normalize_phone(handlers[h].req)) ]]
    /\ UNCHANGED << dataset_table, files, cross_rel_index, cross_rel_meta, txn,
                    _REBUILDING, threads, last_reindex >>

NextPure ==
    \/ \E h \in DOMAIN handlers : ApplyDetectDuplicates(h)
    \/ \E h \in DOMAIN handlers : ApplyNormalizePhone(h)

SpecPure == InitPure /\ [][NextPure]_vars

\* a finished call of detect_duplicates
DupDone(h) == handlers[h].kind = "dup" /\ handlers[h].pc = "done"

\* C21: in every result of detect_duplicates, each row has at most one of
\* the three flags __dup_combined__, __dup_phone__, __dup_email__ set.
C21_FlagsAreExclusive ==
    \A h \in DOMAIN handlers :
        DupDone(h) =>
            \A r \in 1..Len(handlers[h].response.flags) :
                LET f == handlers[h].response.flags[r] IN
                /\ ~(f.__dup_phone__ /\ f.__dup_email__)
                /\ ~(f.__dup_combined__ /\ f.__dup_phone__)
                /\ ~(f.__dup_combined__ /\ f.__dup_email__)


\* a finished call of normalize_phone
PhoneDone(h) == handlers[h].kind = "phone" /\ handlers[h].pc = "done"

\* val is a string of 10 digits whose first digit is 6, 7, 8 or 9
IsTenDigitMobile(val) ==
    /\ val # None
    /\ Len(val) = 10
    /\ \A i \in 1..10 : val[i] \in Digits
    /\ val[1] \in MobileLead

\* C22: normalize_phone of a string of 10 digits that begins with 6, 7, 8
\* or 9 is that string.
C22_TenDigitMobileUnchanged ==
    \A h \in DOMAIN handlers :
        ( PhoneDone(h) /\ IsTenDigitMobile(handlers[h].req) ) =>
            handlers[h].response.result = handlers[h].req

\* a 10-digit mobile number that begins with 91 has been normalized
C22_Witness ==
    \E h \in DOMAIN handlers :
        /\ PhoneDone(h)
        /\ IsTenDigitMobile(handlers[h].req)
        /\ startswith(handlers[h].req, <<"9", "1", "9">>)
        /\ handlers[h].response.result = handlers[h].req


\* C23: when normalize_phone(x) is not None, normalize_phone applied to it
\* returns it again.
C23_NormalizePhoneIdempotent ==
    \A h \in DOMAIN handlers :
        ( PhoneDone(h) /\ handlers[h].response.result # None ) =>
            handlers[h].response.again = handlers[h].response.result

\* a cell of 12 digits without an isolated mobile number was cut to its last
\* 10 digits, and the result normalized to itself
C23_Witness ==
    \E h \in DOMAIN handlers :
        /\ PhoneDone(h)
        /\ handlers[h].req # None
        /\ Len(_RX_NON_DIGIT_sub(handlers[h].req)) = 12
        /\ _RX_MOBILE_BARE(handlers[h].req) = {}
        /\ _RX_MOBILE_LEAD0(handlers[h].req) = {}
        /\ ~startswith(_RX_NON_DIGIT_sub(handlers[h].req), <<"9", "1">>)
        /\ handlers[h].response.result
              = Slice(_RX_NON_DIGIT_sub(handlers[h].req), 3, 12)
        /\ handlers[h].response.again = handlers[h].response.result


\* the positions of the raw string s at which a run of exactly 10 digits
\* begins that starts with 6 to 9 and has no digit before or after it
IsolatedMobileRuns(s) ==
    { i \in 1..(Len(s) - 9) :
        /\ s[i] \in MobileLead
        /\ \A k \in i..(i + 9) : s[k] \in Digits
        /\ i > 1 => s[i - 1] \notin Digits
        /\ i + 10 <= Len(s) => s[i + 10] \notin Digits }

\* C24: when the raw string holds an isolated run of 10 digits that starts
\* with 6 to 9, normalize_phone returns the first such run.
C24_EmbeddedMobileWins ==
    \A h \in DOMAIN handlers :
        ( /\ PhoneDone(h)
          /\ handlers[h].req # None
          /\ IsolatedMobileRuns(handlers[h].req) # {} ) =>
            LET i == First(IsolatedMobileRuns(handlers[h].req)) IN
            handlers[h].response.result = SubSeq(handlers[h].req, i, i + 9)

\* the cell "9848360170(M) 08468 229462" has given 9848360170
C24_Witness ==
    \E h \in DOMAIN handlers :
        /\ PhoneDone(h)
        /\ handlers[h].req = Txt_Embedded
        /\ IsolatedMobileRuns(handlers[h].req) = {1}
        /\ handlers[h].response.result = SubSeq(Txt_Embedded, 1, 10)


\* the positions of s at which a 0 followed by a run of exactly 10 digits
\* starting with 6 to 9 begins, with no digit before the 0 or after the run
LeadingZeroMobileRuns(s) ==
    { i \in 1..(Len(s) - 10) :
        /\ s[i] = "0"
        /\ s[i + 1] \in MobileLead
        /\ \A k \in (i + 1)..(i + 10) : s[k] \in Digits
        /\ i > 1 => s[i - 1] \notin Digits
        /\ i + 11 <= Len(s) => s[i + 11] \notin Digits }

\* the digits of s, in order
DigitsOf(s) == SelectSeq(s, LAMBDA c : c \in Digits)

\* the result by length of the digit string d
ByDigitString(d) ==
    LET n == Len(d)
        last10 == SubSeq(d, n - 9, n)
    IN CASE n = 12 /\ d[1] = "9" /\ d[2] = "1" /\ d[3] \in MobileLead -> last10
         [] n = 10 -> d
         [] n \in {11, 12} -> last10
         [] n > 12 -> None
         [] n \in 7..9 -> d
         [] OTHER -> None

\* the cell without surrounding blanks and without a trailing ".0"
WithoutFloatSuffix(val) ==
    LET s == strip(val) IN
    IF Len(s) >= 2 /\ s[Len(s) - 1] = "." /\ s[Len(s)] = "0"
    THEN SubSeq(s, 1, Len(s) - 2) ELSE s

\* C25 as stated: for a cell without isolated mobile run, bare or after a
\* leading zero, the result is given by the digits of the cell.
C25_ResultByRawDigits ==
    \A h \in DOMAIN handlers :
        ( /\ PhoneDone(h)
          /\ handlers[h].req # None
          /\ IsolatedMobileRuns(handlers[h].req) = {}
          /\ LeadingZeroMobileRuns(handlers[h].req) = {} ) =>
            handlers[h].response.result = ByDigitString(DigitsOf(handlers[h].req))

\* C25: for a cell that, once a trailing ".0" is taken off, holds no
\* isolated mobile run, bare or after a leading zero, the result is given by
\* the digits that remain: 12 digits starting 91 with third digit 6 to 9,
\* and 11 or 12 digits otherwise, give the last 10; exactly 10 and 7 to 9
\* digits give the digits; more than 12 and fewer than 7 give None.
C25_ResultByDigitsAfterFloatSuffix ==
    \A h \in DOMAIN handlers :
        ( /\ PhoneDone(h)
          /\ handlers[h].req # None
          /\ IsolatedMobileRuns(WithoutFloatSuffix(handlers[h].req)) = {}
          /\ LeadingZeroMobileRuns(WithoutFloatSuffix(handlers[h].req)) = {} ) =>
            handlers[h].response.result
                = ByDigitString(DigitsOf(WithoutFloatSuffix(handlers[h].req)))

\* the cell "2345678.0" has given 2345678, not the 8 digits of the cell
C25_Witness ==
    \E h \in DOMAIN handlers :
        /\ PhoneDone(h)
        /\ handlers[h].req = SubSeq(Txt_Digits2, 1, 7) \o <<".", "0">>
        /\ Len(DigitsOf(handlers[h].req)) = 8
        /\ handlers[h].response.result = SubSeq(Txt_Digits2, 1, 7)


\* ------------------------------------------------------------------------
\* A user's requests against other owners' data
\* ------------------------------------------------------------------------

\* the caller whose requests are followed: the owner of datasets 1 and 3
Tenant == 2

\* what dataset 2, of another owner, can be replaced by
OtherContents == {1, 3, Corrupt}

\* Datasets 1 and 3 of the tenant are indexed and current, or dataset 3 is
\* an unparseable file whose reindex ended early and left its marker; the
\* file, the index rows, the metadata row and the marker of dataset 2 are
\* anything they can be.
InitTenant ==
    /\ dataset_table = QueryDatasets
    /\ txn = NoTxn
    /\ threads = [t \in ThreadIds |-> FreeThread]
    /\ handlers = [h \in {1} |-> IdleHandler]
    /\ \E leaked \in BOOLEAN, marked \in BOOLEAN, indexed \in BOOLEAN,
          c \in {2, Absent}, rows \in SortedRowSeqs :
         /\ ~indexed => rows = <<>>
         /\ files = << [mtime |-> 1, content |-> 1],
                       [mtime |-> 1, content |-> c],
                       [mtime |-> 1, content |-> IF leaked THEN Corrupt ELSE 2] >>
         /\ cross_rel_index =
               << IndexRows(1, Tenant, Tables[1], 1),
                  [k \in 1..Len(rows) |->
                     [ dataset_id |-> 2, user_id |-> 3,
                       phone_norm |-> RowValues[rows[k]][1],
                       email_norm |-> RowValues[rows[k]][2], mtime |-> 1 ]],
                  IF leaked THEN <<>> ELSE IndexRows(3, Tenant, Tables[2], 1) >>
         /\ cross_rel_meta =
               << << [mtime |-> 1] >>,
                  IF indexed THEN << [mtime |-> 1] >> ELSE <<>>,
                  IF leaked THEN <<>> ELSE << [mtime |-> 1] >> >>
         /\ _REBUILDING = (IF leaked THEN {3} ELSE {}) \cup (IF marked THEN {2} ELSE {})
    /\ last_reindex = [d \in 1..Len(QueryDatasets) |->
                         IF cross_rel_meta[d] = <<>> THEN <<>>
                         ELSE << [mtime |-> 1, rows |-> cross_rel_index[d]] >>]

PageRequestsTenant ==
    { [user |-> Tenant, file_ids |-> {}, mode |-> "combined",
       cross_user |-> FALSE, page |-> 1],
      [user |-> Tenant, file_ids |-> {1, 2}, mode |-> "phone",
       cross_user |-> FALSE, page |-> 1],
      [user |-> Tenant, file_ids |-> {2}, mode |-> "email",
       cross_user |-> TRUE, page |-> 1] }

RecordsRequestsTenant ==
    { [user |-> Tenant, file_ids |-> {1, 2, 3}, phone |-> Txt_Mobile, email |-> None],
      [user |-> Tenant, file_ids |-> {2}, phone |-> None, email |-> Txt_Mail] }

\* the tenant's requests, one at a time, while dataset 2's file is rewritten
\* or deleted
NextTenant ==
    \/ \E c \in OtherContents : WriteFile(2, c)
    \/ DeleteFile(2)
    \/ \E h \in DOMAIN handlers, req \in PageRequestsTenant : StartPage(h, req)
    \/ \E h \in DOMAIN handlers : EnsureCheck(h)
    \/ \E h \in DOMAIN handlers : EnsureSkip(h)
    \/ QueryNext
    \/ \E h \in DOMAIN handlers : StartStatus(h, Tenant)
    \/ \E h \in DOMAIN handlers : StatusPending(h)
    \/ \E h \in DOMAIN handlers : StatusCheck(h)
    \/ \E h \in DOMAIN handlers : StatusLock(h)
    \/ \E h \in DOMAIN handlers, req \in RecordsRequestsTenant : StartRecords(h, req)
    \/ \E h \in DOMAIN handlers : RecordsLoad(h)
    \/ \E h \in DOMAIN handlers : Return(h)

SpecTenant == InitTenant /\ [][NextTenant]_vars

\* the ids of the datasets owned by user u
OwnIds(u) == { dataset_table[k].id : k \in { j \in 1..Len(dataset_table) :
                                                dataset_table[j].user_id = u } }

\* the index without the rows of other owners' datasets
OwnIndex(u) ==
    [d \in DOMAIN cross_rel_index |->
        IF d \in OwnIds(u) THEN cross_rel_index[d] ELSE <<>>]

\* the page of request req as given by u's own datasets alone
OwnPages(u, req) ==
    LET ids == IF req.file_ids = {} THEN OwnIds(u) ELSE req.file_ids \cap OwnIds(u)
    IN IF \E d \in ids : _file_mtime(d) # _get_indexed_mtime(d)
       THEN { ComputingResponse(req) }
       ELSE { GroupsResponse(req, r.combined, r.phone, r.email) :
                r \in _query_groups(OwnIndex(u), ids, {}) }

\* the status response as given by u's own datasets alone
OwnStatus(u) ==
    LET n == Cardinality({ d \in OwnIds(u) :
                \/ d \in _REBUILDING
                \/ _file_mtime(d) # _get_indexed_mtime(d) })
    IN [ready |-> n = 0, pending |-> n]

\* the file groups of request req as given by u's own files alone
OwnRecords(u, req) ==
    LET own == SelectSeq(dataset_table, LAMBDA ds :
                  /\ ds.user_id = u
                  /\ ds.id \in req.file_ids
                  /\ files[ds.id].content \in TableIds
                  /\ MatchRecords(Tables[files[ds.id].content],
                                  req.phone, req.email).rows # <<>>)
    IN [k \in 1..Len(own) |->
          [dataset_id |-> own[k].id]
             @@ MatchRecords(Tables[files[own[k].id].content], req.phone, req.email)]

\* C26: every finished request of a user who is not an administrator has the
\* result given by the user's own datasets alone (their files, index rows,
\* metadata rows and markers), whatever dataset ids the request names and
\* whatever other owners' datasets hold; its groups and file groups name
\* only the user's datasets and the user as owner.
C26_OnlyOwnDatasets ==
    \A h \in DOMAIN handlers :
        handlers[h].pc = "done" =>
            /\ handlers[h].kind = "page" =>
                 /\ handlers[h].response \in OwnPages(Tenant, handlers[h].req)
                 /\ \A g \in GroupsOf(handlers[h].response.groups) :
                       /\ g.file_ids \subseteq OwnIds(Tenant)
                       /\ g.user_ids \subseteq {Tenant}
            /\ handlers[h].kind = "status" =>
                 handlers[h].response = OwnStatus(Tenant)
            /\ handlers[h].kind = "records" =>
                 /\ handlers[h].response.file_groups
                       = OwnRecords(Tenant, handlers[h].req)
                 /\ \A k \in 1..Len(handlers[h].response.file_groups) :
                       handlers[h].response.file_groups[k].dataset_id
                          \in OwnIds(Tenant)

\* a page of all the tenant's datasets has been served with a group of
\* datasets 1 and 3 while dataset 2 holds an index row with the same phone
\* and its file was rewritten
C26_Witness ==
    \E h \in DOMAIN handlers :
        /\ handlers[h].pc = "done"
        /\ handlers[h].kind = "page"
        /\ handlers[h].req.file_ids = {}
        /\ handlers[h].response.groups # <<>>
        /\ \E k \in 1..Len(cross_rel_index[2]) :
              cross_rel_index[2][k].phone_norm = Txt_Mobile
        /\ files[2].mtime > 1


\* handler h takes a step of a status call
StatusStep(h) ==
    /\ handlers'[h] # handlers[h]
    /\ handlers[h].kind = "status" \/ handlers'[h].kind = "status"

\* dataset d is stale and no reindex of it is marked
StaleUnscheduled(d) ==
    /\ _file_mtime(d) # _get_indexed_mtime(d)
    /\ d \notin _REBUILDING

\* C27: a step of a status call leaves the rebuilding set, the index rows,
\* the metadata rows, the open transaction and the threads as they are, so
\* a dataset that is stale and unmarked stays so; a dataset is marked, and a
\* thread started, only by a page handler inside ensureIndexed.
C27_StatusChangesNothing ==
    [][ /\ \A h \in DOMAIN handlers :
             StatusStep(h) =>
                /\ UNCHANGED << _REBUILDING, cross_rel_index, cross_rel_meta,
                                txn, threads, files, dataset_table >>
                /\ \A d \in DatasetIds : StaleUnscheduled(d) => StaleUnscheduled(d)'
        /\ ( \/ ~(_REBUILDING' \subseteq _REBUILDING)
             \/ \E t \in ThreadIds : ~Running(t) /\ Running(t)' )
           => \E h \in DOMAIN handlers :
                 /\ handlers[h].kind = "page"
                 /\ handlers[h].pc = "ensure_mark" ]_vars

\* a status call has counted a stale dataset, after a rewrite of its file,
\* and neither a marker nor a thread exists
C27_Witness ==
    \E h \in DOMAIN handlers :
        /\ handlers[h].kind = "status"
        /\ handlers[h].pc = "done"
        /\ handlers[h].datasets # <<>>
        /\ handlers[h].stale >= 1
        /\ handlers[h].response.pending >= 1
        /\ _REBUILDING = {}
        /\ \A t \in ThreadIds : ~Running(t)
        /\ StaleUnscheduled(1)
        /\ files[1].mtime > 1


\* ------------------------------------------------------------------------
\* Files that are rewritten and never deleted
\* ------------------------------------------------------------------------

\* what a rewrite puts in the file: another table with phone and email
\* columns, a table without them, or bytes read_file cannot parse
RewriteContents == {2, 3, Corrupt}

\* two request handlers serving the page of dataset 1, and the reindex
\* threads, while dataset 1's file is rewritten, every rewrite with a larger
\* mtime
NextRewrite ==
    \/ \E d \in ChangingFiles, c \in RewriteContents : WriteFile(d, c)
    \/ ThreadNext
    \/ \E h \in DOMAIN handlers, req \in PageRequestsTwo : StartPage(h, req)
    \/ EnsureNextStep
    \/ QueryNext
    \/ \E h \in DOMAIN handlers : Return(h)

SpecRewrite == InitTwo /\ [][NextRewrite]_vars

\* C28: whenever a dataset's metadata mtime equals its file's mtime, the
\* file is a readable table and the dataset's index rows are the normalized
\* rows of that table, carrying that mtime.
C28_CurrentMeansContentIndexed ==
    \A k \in 1..Len(dataset_table) :
        LET ds == dataset_table[k] IN
        ( /\ cross_rel_meta[ds.id] # <<>>
          /\ cross_rel_meta[ds.id][1].mtime = files[ds.id].mtime ) =>
            /\ files[ds.id].content \in TableIds
            /\ cross_rel_index[ds.id]
                  = IndexRows(ds.id, ds.user_id, Tables[files[ds.id].content],
                              files[ds.id].mtime)

\* dataset 1 is current with the rows of its rewritten file, after a reindex
\* that was given the old mtime, read the new content and recorded the old
\* mtime, and a second reindex
C28_Witness ==
    /\ files[1].mtime = 2
    /\ files[1].content = 2
    /\ cross_rel_meta[1] = << [mtime |-> 2] >>
    /\ cross_rel_index[1] = IndexRows(1, 2, Tables[2], 2)
    /\ \E t \in ThreadIds :
          /\ threads[t].pc = "finally"
          /\ threads[t].before
                = << IndexRows(1, 2, Tables[2], 1), << [mtime |-> 1] >> >>


\* C29: when a reindex commits on a dataset that has a metadata row, the
\* mtime it records is not below the recorded one.
C29_MetaMtimeNeverDecreases ==
    [][ \A t \in ThreadIds :
          ( /\ Commits(t)
            /\ cross_rel_meta[threads[t].dataset_id] # <<>> )
          => cross_rel_meta'[threads[t].dataset_id][1].mtime
                >= cross_rel_meta[threads[t].dataset_id][1].mtime ]_vars


\* ------------------------------------------------------------------------
\* Repeated calls on readable files and a store that accepts writes
\* ------------------------------------------------------------------------

\* what a rewrite puts in the file: tables read_file can parse
ReadableContents == {2, 3}

\* the next step of the request worker h: it takes a request for the page of
\* dataset 1, runs it and sends the response
HandlerStep(h) ==
    \/ \E req \in PageRequestsTwo : StartPage(h, req)
    \/ EnsureCheck(h)
    \/ EnsureSkip(h)
    \/ EnsureStart(h)
    \/ QueryCombined(h)
    \/ QueryPhone(h)
    \/ QueryEmail(h)
    \/ Return(h)

\* ENABLED <<HandlerStep(h)>>_vars, written out: a worker waits only when it
\* has to start a thread and none is free
HandlerEnabled(h) ==
    \/ handlers[h].pc # "ensure_mark"
    \/ CurrentDataset(h).id \in _REBUILDING
    \/ FreeThreads # {}

NextSettle ==
    \/ \E d \in ChangingFiles, c \in ReadableContents : WriteFile(d, c)
    \/ \E t \in ThreadIds : ThreadStep(t)
    \/ \E h \in DOMAIN handlers : HandlerStep(h)

\* two workers that keep serving the page of dataset 1 and the reindex
\* threads, all weakly fair (ENABLED written out), while the file is
\* rewritten a bounded number of times
SpecSettle ==
    /\ InitTwo /\ [][NextSettle]_vars
    /\ \A t \in ThreadIds :
          []<>(~ThreadEnabled(t)) \/ []<><<ThreadStep(t)>>_vars
    /\ \A h \in {1, 2} :
          []<>(~HandlerEnabled(h)) \/ []<><<HandlerStep(h)>>_vars

\* the call of _ensure_datasets_indexed of handler h has returned True
ReturnedTrue(h) == EnsureReturned(h) /\ handlers[h].all_ready

\* C30: from some point on every call of ensureIndexed that returns returns
\* true, and calls keep returning true.
C30_EventuallyAlwaysReady ==
    /\ <>[](\A h \in DOMAIN handlers : EnsureReturned(h) => handlers[h].all_ready)
    /\ []<>(\E h \in DOMAIN handlers : ReturnedTrue(h))

\* a call has returned true on the rewritten file, right after the reindex
\* that replaced rows of the new content stored under the mtime sampled
\* before the rewrite
C30_Witness ==
    \E h \in DOMAIN handlers :
        /\ ReturnedTrue(h)
        /\ files[1].mtime > 1
        /\ cross_rel_meta[1] = << [mtime |-> files[1].mtime] >>
        /\ \E t \in ThreadIds :
              /\ threads[t].pc = "finally"
              /\ threads[t].before
                    = << IndexRows(1, 2, Tables[files[1].content], 1),
                         << [mtime |-> 1] >> >>

====
